---------------------------- MODULE Spec2Model ----------------------------
(***************************************************************************)
(* A model of prepare_mt_data: the hard-rule filter (rule battery and the  *)
(* map / filter / reduce pipeline), the XML document translator's          *)
(* mux / demux threads, the split / map / concatenate harness and the tag  *)
(* protector.  Each part has its own specification over its own variables; *)
(* the variables of the other parts stay at their idle values.             *)
(***************************************************************************)
EXTENDS Integers, Sequences, FiniteSets, TLC

VARIABLES
    \* ---- wrong_tu applied to one sentence pair (bicleaner_hardrules.py)
    tu,             \* the pair under test: sentence features and args
    tuResult,       \* "pending", or what wrong_tu(left, right, args) did
    \* ---- the hard-rule pipeline (bicleaner_hardrules.py)
    hargs,          \* args: input lines, block_size, processes
    mainpc,         \* where perform_hardrules_filtering (the parent) is
    nline,          \* mapping_process: lines read
    nblock,         \* mapping_process: current block number
    mytemp,         \* mapping_process: the open temp file (its lines) or None
    sentinels,      \* worker sentinels the parent has put so far
    joined,         \* workers the parent has joined so far
    jobs_queue,     \* Queue(maxsize): jobs and sentinels in flight
    output_queue,   \* Queue(maxsize): finished blocks and the sentinel
    mapfiles,       \* temp files the mapper wrote:  block number -> lines
    outfiles,       \* temp files the workers wrote: block number -> lines
    wpc,            \* worker -> "get" | "put" | "exited" | "crashed"
    wjob,           \* worker -> the ojob it is about to put
    wsent,          \* worker -> sentinels it has consumed
    enqueued,       \* everything ever put on jobs_queue, in order
    rpc,            \* reducer: "run" | "done" | "crashed"
    h,              \* reducer: the heap, as the set of block numbers in it
    last_block,     \* reducer: next block number to write
    written,        \* block numbers appended to the final output, in order
    output,         \* the final output file (its lines)
    \* ---- mux_demux over one subprocess (translate_xml_docs.py)
    tree,           \* the parsed XML: document index -> the lines of its text
    docs,           \* the shared list: document index -> its lines
    caps,           \* lines the stdin buffer and the two pipes can hold
    mdpc,           \* where mux_demux (the main thread) is
    muxpc,          \* where _mux is
    mux_i,          \* _mux: i
    mux_sents,      \* _mux: sents, the lines still to write
    mux_count,      \* _mux: count
    wbuf,           \* process_stdin: the buffered writer's buffer
    stdin_pipe,     \* the pipe to the subprocess
    stdout_pipe,    \* the pipe from the subprocess
    q,              \* queue.Queue(): tokens and the poison
    demuxpc,        \* where _demux is
    demux_i,        \* _demux: i
    demux_count,    \* _demux: count
    demux_sents,    \* _demux: sents
    \* ---- pll_single / pll_multi (parallely.py)
    pll,            \* the call: function name, files, length, n_jobs
    pllpc,          \* where the call is
    lines_per_job,  \* lines_per_job
    temp_dir,       \* the files in temp_dir: a set of [file, suffix, lines]
    lists_of_splits,\* per input file, its sorted pieces
    result,         \* Parallel's result list: job -> what function returned
    calls,          \* invocations of function so far
    catted,         \* the concatenated output files: index -> lines
    \* ---- extract_tags / reinsert_tags (retagger.py)
    tagtext,        \* the text given to extract_tags
    tagpc,          \* "start" | "extracted" | "reinserted"
    cleaned,        \* extract_tags: the text returned
    tags,           \* extract_tags: the tag records returned
    restored,       \* reinsert_tags: the text returned
    translation,    \* the cleaned text as the translator gave it back
    retagged,       \* reinsert_tags on the translation: the text returned
    \* ---- sharding (shard_data.py)
    shargs,         \* main's arguments: the datasets, min_n_shards, ...
    shpc,           \* where main is
    line_counts,    \* line_counts, in insertion order: <<[fp, length], ...>>
    min_size,       \* min_size
    sharded,        \* sharded, in the order of line_counts: <<n, ...>>
    outdir,         \* the shard files: a set of [shard, name, lines]
    max_shard_id,   \* max_shard_id
    rep_fp,         \* replication: place in sharded of the file at hand
    avail,          \* replication: avail
    current,        \* replication: current
    shifting,       \* replication: shifting
    \* ---- the cleaning stages (clean.py)
    clargs,         \* the stage called, and whether src and tgt are empty
    fs,             \* output_dir and the inputs: path -> [content, writes]
    clreturned,     \* what the last call returned, or what it raised
    ncalls,         \* calls of the stage so far
    \* ---- the resampler (resample_parallel.py main)
    rsargs,         \* pconfig['data'], n, add_tag, dry_run
    rspc,           \* where main is: "open", "loop", "returned"
    opened,         \* whether dataset_fhs and lang_out_fhs are open
    c,              \* pairs written so far
    read_lines,     \* dataset -> read_lines[dataset]
    pos,            \* dataset -> the line the two input files stand at
    reads,          \* dataset -> the lines readline was asked for, in order
    out,            \* dataset -> the pairs written to .INPUT / .OUTPUT
    draws,          \* iterations of the sampling loop so far
    \* ---- the manifest builder (collect_data_files.py)
    cargs,          \* the files under direc, langs, ordered, unique, mono, skip
    cpc,            \* where collect_data_files is
    bases,          \* bases
    dir_i,          \* the direction the outer loop is at
    todo,           \* the bases the inner loop has not visited yet
    data,           \* data: the entries, one for a key
    seen,           \* seen
    \* ---- parse_configs (utils.py)
    configs,        \* what yaml.safe_load gives for each file of `configs'
    ppc,            \* where parse_configs is
    merged,         \* how many files have been merged
    pconfig,        \* pconfig
    \* ---- the length rule of wrong_tu (bicleaner_hardrules.py)
    ltu,            \* the pair c_length and wrong_tu are given, and args
    accepted,       \* what c_length(left, right) returned
    rejected,       \* what wrong_tu(left, right, args) returned
    \* ---- fix_sentences (bifixer.py)
    bargs,          \* args of bifixer.py
    bpc,            \* where fix_sentences is
    ilines,         \* ilines
    boutput,        \* the lines written to args.output
    \* ---- setup_logger (utils.py)
    loggers,        \* the loggers of the logging module, by name
    lcall,          \* the arguments of the last call of setup_logger
    lcalls,         \* how many calls there were
    \* ---- sinkhorn_temperature_sampling (resample_parallel.py)
    metadata,       \* metadata: the datasets, with their languages and sizes
    skpc,           \* where sinkhorn_temperature_sampling is
    A,              \* A: the matrix of counts, a sequence of rows
    slangs,         \* slangs: the list of languages that is returned
    axis,           \* the language of each row and column of A
    probs,          \* probs
    updated_metadata, \* updated_metadata
    \* ---- _tagprotect (clean.py)
    tpargs,         \* max_id, and the matches re.findall gives for the line
    tppc,           \* where _tagprotect is
    tpi,            \* i: the matches done
    tpline,         \* line
    repls,          \* repls
    \* ---- the stages of clean.py, step by step
    sstage,         \* the stage that is called
    sstatus,        \* whether the call runs, was stopped, returned or skipped
    spc,            \* the steps of the run that are done
    sfiles,         \* the files of the output directory: partly or wholly written
    runs,           \* the calls of the stage so far
    completed       \* the calls that ran to their end

tuVars == <<tu, tuResult>>
hardVars == <<hargs, mainpc, nline, nblock, mytemp, sentinels, joined,
              jobs_queue, output_queue, mapfiles, outfiles, wpc, wjob, wsent,
              enqueued, rpc, h, last_block, written, output>>
muxVars == <<tree, docs, caps, mdpc, muxpc, mux_i, mux_sents, mux_count, wbuf,
             stdin_pipe, stdout_pipe, q, demuxpc, demux_i, demux_count,
             demux_sents>>
pllVars == <<pll, pllpc, lines_per_job, temp_dir, lists_of_splits, result,
             calls, catted>>
tagVars == <<tagtext, tagpc, cleaned, tags, restored, translation, retagged>>
shardVars == <<shargs, shpc, line_counts, min_size, sharded, outdir,
               max_shard_id, rep_fp, avail, current, shifting>>
cleanVars == <<clargs, fs, clreturned, ncalls>>
resampleVars == <<rsargs, rspc, opened, c, read_lines, pos, reads, out, draws>>
collectVars == <<cargs, cpc, bases, dir_i, todo, data, seen>>
parseVars == <<configs, ppc, merged, pconfig>>
lengthVars == <<ltu, accepted, rejected>>
bifixVars == <<bargs, bpc, ilines, boutput>>
loggerVars == <<loggers, lcall, lcalls>>
sinkhornVars == <<metadata, skpc, A, slangs, axis, probs, updated_metadata>>
protectVars == <<tpargs, tppc, tpi, tpline, repls>>
stepsVars == <<sstage, sstatus, spc, sfiles, runs, completed>>
vars == <<tuVars, hardVars, muxVars, pllVars, tagVars, shardVars, cleanVars,
    resampleVars, collectVars, parseVars, lengthVars, bifixVars, loggerVars,
    sinkhornVars, protectVars, stepsVars>>

\* What each part leaves alone: the variables of the other parts.
notTu == <<hardVars, muxVars, pllVars, tagVars, shardVars, cleanVars,
    resampleVars, collectVars, parseVars, lengthVars, bifixVars, loggerVars,
    sinkhornVars, protectVars, stepsVars>>
notHard == <<tuVars, muxVars, pllVars, tagVars, shardVars, cleanVars,
    resampleVars, collectVars, parseVars, lengthVars, bifixVars, loggerVars,
    sinkhornVars, protectVars, stepsVars>>
notMux == <<tuVars, hardVars, pllVars, tagVars, shardVars, cleanVars,
    resampleVars, collectVars, parseVars, lengthVars, bifixVars, loggerVars,
    sinkhornVars, protectVars, stepsVars>>
notPll == <<tuVars, hardVars, muxVars, tagVars, shardVars, cleanVars,
    resampleVars, collectVars, parseVars, lengthVars, bifixVars, loggerVars,
    sinkhornVars, protectVars, stepsVars>>
notTags == <<tuVars, hardVars, muxVars, pllVars, shardVars, cleanVars,
    resampleVars, collectVars, parseVars, lengthVars, bifixVars, loggerVars,
    sinkhornVars, protectVars, stepsVars>>
notClean == <<tuVars, hardVars, muxVars, pllVars, tagVars, shardVars,
    resampleVars, collectVars, parseVars, lengthVars, bifixVars, loggerVars,
    sinkhornVars, protectVars, stepsVars>>
notResample == <<tuVars, hardVars, muxVars, pllVars, tagVars, shardVars,
    cleanVars, collectVars, parseVars, lengthVars, bifixVars, loggerVars,
    sinkhornVars, protectVars, stepsVars>>
notCollect == <<tuVars, hardVars, muxVars, pllVars, tagVars, shardVars,
    cleanVars, resampleVars, parseVars, lengthVars, bifixVars, loggerVars,
    sinkhornVars, protectVars, stepsVars>>
notParse == <<tuVars, hardVars, muxVars, pllVars, tagVars, shardVars,
    cleanVars, resampleVars, collectVars, lengthVars, bifixVars, loggerVars,
    sinkhornVars, protectVars, stepsVars>>
notLength == <<tuVars, hardVars, muxVars, pllVars, tagVars, shardVars,
    cleanVars, resampleVars, collectVars, parseVars, bifixVars, loggerVars,
    sinkhornVars, protectVars, stepsVars>>
notShard == <<tuVars, hardVars, muxVars, pllVars, tagVars, cleanVars,
    resampleVars, collectVars, parseVars, lengthVars, bifixVars, loggerVars,
    sinkhornVars, protectVars, stepsVars>>

notBifix == <<tuVars, hardVars, muxVars, pllVars, tagVars, shardVars,
    cleanVars, resampleVars, collectVars, parseVars, lengthVars, loggerVars,
    sinkhornVars, protectVars, stepsVars>>

notLogger == <<tuVars, hardVars, muxVars, pllVars, tagVars, shardVars,
    cleanVars, resampleVars, collectVars, parseVars, lengthVars, bifixVars,
    sinkhornVars, protectVars, stepsVars>>

notSinkhorn == <<tuVars, hardVars, muxVars, pllVars, tagVars, shardVars,
    cleanVars, resampleVars, collectVars, parseVars, lengthVars, bifixVars,
    loggerVars, protectVars, stepsVars>>

notProtect == <<tuVars, hardVars, muxVars, pllVars, tagVars, shardVars,
    cleanVars, resampleVars, collectVars, parseVars, lengthVars, bifixVars,
    loggerVars, sinkhornVars, stepsVars>>

notSteps == <<tuVars, hardVars, muxVars, pllVars, tagVars, shardVars,
    cleanVars, resampleVars, collectVars, parseVars, lengthVars, bifixVars,
    loggerVars, sinkhornVars, protectVars>>

None == "None"

(***************************************************************************)
(* Bounds of the model.                                                    *)
(***************************************************************************)
MaxLen == 2             \* longest short sentence, in characters
MaxFailing == 2         \* regex-based checks that fail on one pair at once
MaxLines == 3           \* lines of the hard-rule filter's input
MaxBlockSize == 2       \* args.block_size
MaxWorkers == 2         \* args.processes
SlotsPerProcess == 1    \* queue slots per process (the code has 1000)
MaxDocs == 2            \* <doc> elements of the XML input
MaxDocLines == 4        \* lines of one document
MaxCap == 1             \* lines a buffer or a pipe can hold
MaxFiles == 2           \* parallel files given to pll_multi
MaxFileLen == 4         \* lines of a file given to pll_single / pll_multi
MaxJobs == 4            \* n_jobs
SuffixLetters == 2      \* letters of split's suffix alphabet (split has 26)
MaxTokens == 5          \* tokens of a text given to extract_tags
MaxDatasets == 2        \* datasets of a manifest given to the sharding tool
MaxDataLen == 4         \* lines of a dataset given to the sharding tool
MaxMinShards == 3       \* min_n_shards
MaxMaxShards == 2       \* max_n_shards (main's default is 10)
MaxCalls == 2           \* calls of one cleaning stage in succession
MaxResampleLen == 3     \* lines of a dataset that is resampled
MaxN == 2               \* n, the number of pairs to sample
MaxDraws == 4           \* iterations of the sampling loop that are followed
MaxLangs == 3           \* languages in the list given to the manifest builder
MaxCharLen == 4         \* characters of a sentence given to c_length
MaxWide == 2            \* two-byte characters in such a sentence
MaxTextLen == 2         \* characters of a sentence given to the bifixer
MaxSetupCalls == 3      \* calls of setup_logger that are followed
MaxSkSize == 1          \* lines of a dataset given to the Sinkhorn sampling
MaxId == 2              \* max_id of _tagprotect
MaxMatches == 4         \* matches of the regex in a line
MaxRuns == 3            \* calls of a stage, one after another

(***************************************************************************)
(* Sentences.  A sentence is known by what the rules of the battery read   *)
(* of it: its length in characters and in UTF-8 bytes, its number of       *)
(* blanks and of alphabetic characters, and the set `bad' of what the      *)
(* regex-based checks find in it (a failed check, or "istitle" for a       *)
(* title-cased sentence).                                                  *)
(***************************************************************************)
LongLen == 1024

SentenceChecks ==
    {"c_no_literals_Re", "c_no_urls", "c_no_breadcrumbs1", "c_no_breadcrumbs2",
     "c_no_glued_words", "c_no_noise", "c_no_space_noise", "c_no_paren",
     "c_unwanted", "c_inconditional", "c_no_escaped_unicode",
     "c_no_literals_braces", "istitle", "c_reliable_long_language"}

PairChecks ==
    {"c_identical", "c_identical_wo_digits", "c_identical_wo_punct",
     "c_different_language"}

\* A short sentence: blanks and alphabetic characters are disjoint, and every
\* `wide' alphabetic character takes two bytes in UTF-8.
ShortFeatures ==
    { [len |-> n, bytes |-> n + w, blanks |-> b, alpha |-> a] :
        n \in 0..MaxLen, b \in 0..MaxLen, a \in 0..MaxLen, w \in 0..MaxLen }

Empty == [len |-> 0, bytes |-> 0, blanks |-> 0, alpha |-> 0]
\* Two sentences long enough for every regex of the battery to match in:
\* one of six words, one of two.
MidA == [len |-> 40, bytes |-> 40, blanks |-> 5, alpha |-> 35]
MidB == [len |-> 40, bytes |-> 42, blanks |-> 1, alpha |-> 39]
Long(n) == [len |-> n, bytes |-> n, blanks |-> 2, alpha |-> n - 2]

Features ==
    { f \in ShortFeatures : f.blanks + f.alpha <= f.len /\ f.bytes - f.len <= f.alpha }
    \cup {MidA, MidB, Long(LongLen - 1), Long(LongLen)}

\* The sentences the model lets a regex-based check fire on.
FlagFeatures == {Empty, MidA, MidB, Long(LongLen)}

Sentence(f, bad) ==
    [len |-> f.len, bytes |-> f.bytes, blanks |-> f.blanks, alpha |-> f.alpha,
     bad |-> bad]

RECURSIVE SetsUpTo(_, _)
SetsUpTo(S, k) ==
    IF k = 0 THEN {{}}
    ELSE LET P == SetsUpTo(S, k - 1) IN P \cup { T \cup {x} : T \in P, x \in S }

AllChecks ==
    (SentenceChecks \X {"left", "right"}) \cup (PairChecks \X {"pair"})

Side(F, side) == { chk[1] : chk \in { d \in F : d[2] = side } }

safe_noise_detection_langs ==
    {"en", "es", "fr", "pl", "de", "it", "pt", "nl", "cs", "ro", "fi", "lv",
     "et", "bg", "hr", "da", "hu", "ga", "eu", "gl", "sl", "sv", "mt", "sk",
     "is", "lt", "nb", "nn", "no"}

Langs == {"en", "zh"}

Args ==
    [disable_minimal_length : BOOLEAN, disable_lang_ident : BOOLEAN,
     source_lang : Langs, target_lang : Langs]

DefaultArgs ==
    [disable_minimal_length |-> FALSE, disable_lang_ident |-> FALSE,
     source_lang |-> None, target_lang |-> None]

\* What a real pair of strings can look like: the empty string matches no
\* regex and is not title-cased; a pair equal after case folding is still
\* equal with its digits or its punctuation removed.
Realisable(left, right, pair) ==
    /\ left.len = 0 => left.bad = {}
    /\ right.len = 0 => right.bad = {}
    /\ "c_identical" \in pair =>
          {"c_identical_wo_digits", "c_identical_wo_punct"} \subseteq pair
    /\ (left.len = 0 /\ right.len = 0) => "c_identical" \in pair
    /\ (left.len = 0) # (right.len = 0) => "c_identical" \notin pair

MkTu(lf, rf, F, args) ==
    [left |-> Sentence(lf, Side(F, "left")), right |-> Sentence(rf, Side(F, "right")),
     pair |-> Side(F, "pair"), args |-> args]

\* Two empty strings are equal whatever is removed from them.
Forced(lf, rf) ==
    IF lf.len = 0 /\ rf.len = 0
    THEN {"c_identical", "c_identical_wo_digits", "c_identical_wo_punct"} \X {"pair"}
    ELSE {}

NoTu == MkTu(Empty, Empty, {}, DefaultArgs)

(***************************************************************************)
(* The checks of the battery.  A regex-based check passes unless the       *)
(* sentence (or the pair) carries it in `bad'.                             *)
(***************************************************************************)
c_no_literals_Re(sentence) == "c_no_literals_Re" \notin sentence.bad
c_minimal_length(sentence) == sentence.blanks >= 2

\* float(len(left))/float(len(right)) divides by zero on an empty right.
c_length_raises(left, right) == right.len = 0
c_length_exclusive(left, right) ==
    right.len < 2 * left.len /\ left.len < 2 * right.len
c_length(left, right) ==
    right.len <= 2 * left.len /\ left.len <= 2 * right.len
c_length_bytes_raises(left, right) == right.bytes = 0
c_length_bytes(left, right) ==
    right.bytes <= 2 * left.bytes /\ left.bytes <= 2 * right.bytes

c_identical(pair) == "c_identical" \notin pair
c_identical_wo_digits(pair) == "c_identical_wo_digits" \notin pair
c_identical_wo_punct(pair) == "c_identical_wo_punct" \notin pair
c_different_language(pair) == "c_different_language" \notin pair
c_reliable_long_language(sentence) ==
    "c_reliable_long_language" \notin sentence.bad

\* float(len(alpha))/float(len(sentence)) divides by zero on an empty sentence.
c_majority_alpha_raises(sentence) == sentence.len = 0
c_majority_alpha(sentence) == 2 * sentence.alpha >= sentence.len

c_no_urls(sentence) == "c_no_urls" \notin sentence.bad
c_no_breadcrumbs1(sentence) == "c_no_breadcrumbs1" \notin sentence.bad
c_no_breadcrumbs2(sentence) == "c_no_breadcrumbs2" \notin sentence.bad
c_no_noise(sentence) == "c_no_noise" \notin sentence.bad
c_no_space_noise(sentence) == "c_no_space_noise" \notin sentence.bad
c_no_paren(sentence) == "c_no_paren" \notin sentence.bad
c_unwanted(sentence) == "c_unwanted" \notin sentence.bad
c_inconditional(sentence) == "c_inconditional" \notin sentence.bad
c_no_literals_braces(sentence) == "c_no_literals_braces" \notin sentence.bad
c_no_escaped_unicode(sentence) == "c_no_escaped_unicode" \notin sentence.bad
c_no_glued_words(sentence) == "c_no_glued_words" \notin sentence.bad
istitle(sentence) == "istitle" \in sentence.bad

(***************************************************************************)
(* wrong_tu(left, right, args): the if / elif chain of the source, branch  *)
(* by branch.  It gives "False" (keep), the reason string of the branch    *)
(* taken, or ZeroDivisionError when a check of the chain raises.           *)
(***************************************************************************)
ZeroDivisionError == "ZeroDivisionError"

\* The second statement of wrong_tu: `if len(right) >= 1024 ... elif ...'.
wrong_tu_chain(left, right, pair, args) ==
    IF right.len >= LongLen THEN "len(right) >= 1024"
    ELSE IF ~c_no_literals_Re(left) THEN "c_no_literals(['Re:'], left)"
    ELSE IF ~c_no_literals_Re(right) THEN "c_no_literals(['Re:'], right)"
    ELSE IF ~args.disable_minimal_length
            /\ ~(c_minimal_length(left) \/ c_minimal_length(right))
         THEN "c_minimal_length(left) and c_minimal_length(right)"
    ELSE IF c_length_raises(left, right) THEN ZeroDivisionError
    ELSE IF ~c_length(left, right) /\ c_length_bytes_raises(left, right)
         THEN ZeroDivisionError
    ELSE IF ~(c_length(left, right) \/ c_length_bytes(left, right))
         THEN "c_length or c_length_bytes"
    ELSE IF ~c_identical(pair) THEN "c_identical"
    ELSE IF ~c_identical_wo_digits(pair) THEN "c_identical_wo_digits"
    ELSE IF ~c_identical_wo_punct(pair) THEN "c_identical_wo_punct"
    ELSE IF ~args.disable_lang_ident /\ ~c_different_language(pair)
         THEN "c_different_language"
    ELSE IF c_majority_alpha_raises(left) THEN ZeroDivisionError
    ELSE IF ~c_majority_alpha(left) THEN "c_majority_alpha(left)"
    ELSE IF c_majority_alpha_raises(right) THEN ZeroDivisionError
    ELSE IF ~c_majority_alpha(right) THEN "c_majority_alpha(right)"
    ELSE IF ~c_no_urls(left) THEN "c_no_urls(left)"
    ELSE IF ~c_no_urls(right) THEN "c_no_urls(right)"
    ELSE IF ~c_no_breadcrumbs1(left) THEN "c_no_breadcrumbs1(left)"
    ELSE IF ~c_no_breadcrumbs1(right) THEN "c_no_breadcrumbs1(right)"
    ELSE IF ~c_no_breadcrumbs2(left) THEN "c_no_breadcrumbs2(left)"
    ELSE IF ~c_no_breadcrumbs2(right) THEN "c_no_breadcrumbs2(right)"
    ELSE IF ~c_no_glued_words(left) THEN "c_no_glued_words(left)"
    ELSE IF ~c_no_glued_words(right) THEN "c_no_glued_words(right)"
    ELSE IF args.source_lang \in safe_noise_detection_langs /\ ~c_no_noise(left)
         THEN "args.source_lang in safe_noise_detection_langs and not c_no_noise(left)"
    ELSE IF args.target_lang \in safe_noise_detection_langs /\ ~c_no_noise(right)
         THEN "args.target_lang in safe_noise_detection_langs and not c_no_noise(right)"
    ELSE IF ~c_no_space_noise(left) THEN "c_no_space_noise(left)"
    ELSE IF ~c_no_space_noise(right) THEN "c_no_space_noise(right)"
    ELSE IF ~c_no_paren(left) THEN "c_no_paren(left)"
    ELSE IF ~c_no_paren(right) THEN "c_no_paren(right)"
    ELSE IF ~c_unwanted(left) THEN "c_unwanted(left)"
    ELSE IF ~c_unwanted(right) THEN "c_unwanted(right)"
    ELSE IF ~c_inconditional(left) THEN "c_inconditional(left)"
    ELSE IF ~c_inconditional(right) THEN "c_inconditional(right)"
    ELSE IF ~c_no_escaped_unicode(left) THEN "c_no_escaped_unicode(left)"
    ELSE IF ~c_no_escaped_unicode(right) THEN "c_no_escaped_unicode(right)"
    ELSE IF ~c_no_literals_braces(left)
         THEN "c_no_literals([\"{{\", \"%s\", \"}}\"], left)"
    ELSE IF ~c_no_literals_braces(right)
         THEN "c_no_literals([\"{{\", \"%s\", \"}}\"], right)"
    ELSE IF istitle(left) /\ istitle(right)
         THEN "left.istitle() and right.istitle()"
    ELSE IF ~args.disable_lang_ident /\ ~c_reliable_long_language(left)
         THEN "c_reliable_long_language(left, sourcelang)"
    ELSE IF ~args.disable_lang_ident /\ ~c_reliable_long_language(right)
         THEN "c_reliable_long_language(right, targetlang)"
    ELSE "False"

\* A slip in the order of the chain: the right side's cap tested first.
wrong_tu_right_first(left, right, pair, args) ==
    IF right.len >= LongLen THEN "len(right) >= 1024"
    ELSE IF left.len >= LongLen THEN "len(left) >= 1024"
    ELSE wrong_tu_chain(left, right, pair, args)

wrong_tu(left, right, pair, args) ==
    IF left.len >= LongLen THEN "len(left) >= 1024"
    ELSE wrong_tu_chain(left, right, pair, args)

(***************************************************************************)
(* wrong_tu applied to one pair.                                           *)
(***************************************************************************)
TuIdle == tu = NoTu /\ tuResult = "idle"

\* The pairs wrong_tu is tried on: every pair of sentences with no regex
\* finding, and the pairs of FlagFeatures with up to MaxFailing findings.
FlagSets == SetsUpTo(AllChecks, MaxFailing)

TuInit ==
    /\ \E a \in Args :
        \/ \E lf \in Features, rf \in Features : tu = MkTu(lf, rf, Forced(lf, rf), a)
        \/ \E lf \in FlagFeatures, rf \in FlagFeatures, F \in FlagSets :
             /\ tu = MkTu(lf, rf, F \cup Forced(lf, rf), a)
             /\ Realisable(tu.left, tu.right, tu.pair)
    /\ tuResult = "pending"

ApplyWrongTu ==
    /\ tuResult = "pending"
    /\ tuResult' = wrong_tu(tu.left, tu.right, tu.pair, tu.args)
    /\ UNCHANGED tu
    /\ UNCHANGED notTu

(***************************************************************************)
(* The hard-rule pipeline: lines, args and the queues.                     *)
(***************************************************************************)
\* Three input lines, as the columns `i.strip().split("\t")' gives:
\*   "a b c d e f\tg h i j k l"   two columns, kept by the battery
\*   "a b c d e f\t\tx"           an empty middle column
\*   "a b c d e f"                one column
KeepLine == [parts |-> <<Sentence(MidA, {}), Sentence(MidA, {})>>, pair |-> {}]
EmptyTargetLine ==
    [parts |-> <<Sentence(MidA, {}), Sentence(Empty, {}), Sentence(MidB, {})>>,
     pair |-> {}]
OneColumnLine == [parts |-> <<Sentence(MidA, {})>>, pair |-> {}]

HardLines == {KeepLine, EmptyTargetLine, OneColumnLine}

SeqsUpTo(S, n) == UNION { [1..k -> S] : k \in 0..n }
Range(seq) == { seq[i] : i \in DOMAIN seq }
Count(seq, x) == Cardinality({ i \in DOMAIN seq : seq[i] = x })

HardArgs ==
    { [input |-> in, block_size |-> b, processes |-> p, scol |-> 1, tcol |-> 2,
       annotated_output |-> FALSE, rules |-> DefaultArgs] :
        in \in SeqsUpTo(HardLines, MaxLines), b \in 1..MaxBlockSize,
        p \in 1..MaxWorkers }

Max(a, b) == IF a >= b THEN a ELSE b

process_count(args) == Max(1, args.processes)
maxsize(args) == SlotsPerProcess * process_count(args)
Workers(args) == 1..process_count(args)

\* Queue.put blocks while the queue holds maxsize items.
CanPut(queue, args) == Len(queue) < maxsize(args)

\* heapq on (nblock, filein_name) tuples: the heap is known by its block
\* numbers, h[0] is the least of them.
HeapMin(heap) == CHOOSE x \in heap : \A y \in heap : x <= y
heappush(heap, item) == heap \cup {item}

\* `len(h) > 0 and h[0][0] == last_block'
ReadyAlways(heap, last) == heap # {}
Ready(heap, last) == heap # {} /\ HeapMin(heap) = last

Without(f, k) == [x \in DOMAIN f \ {k} |-> f[x]]

\* One line of a block in worker_process: whether wrong_tu raises on it,
\* and what the worker writes to fileout for it (nothing for a line with
\* too few columns).
HasColumns(line, args) ==
    Len(line.parts) >= args.scol /\ Len(line.parts) >= args.tcol

LineResult(line, args) ==
    wrong_tu(line.parts[args.scol], line.parts[args.tcol], line.pair, args.rules)

LineRaises(line, args) ==
    HasColumns(line, args) /\ LineResult(line, args) = ZeroDivisionError

LineWritten(line, args) ==
    IF ~HasColumns(line, args) THEN <<>>
    ELSE LET wrong_tu_results == LineResult(line, args)
         IN  IF wrong_tu_results # "False"
             THEN IF args.annotated_output
                  THEN << <<line, "0", wrong_tu_results>> >>
                  ELSE << <<line, "0", "">> >>
             ELSE IF args.annotated_output
                  THEN << <<line, "1", "keep">> >>
                  ELSE << <<line, "1", "">> >>

\* The `for i in filein' loop of worker_process over a whole block: the
\* lines written, or crashed when wrong_tu raised on one of them.
RECURSIVE ClassifyBlock(_, _)
ClassifyBlock(lines, args) ==
    IF lines = <<>> THEN [crashed |-> FALSE, out |-> <<>>]
    ELSE IF LineRaises(Head(lines), args) THEN [crashed |-> TRUE, out |-> <<>>]
    ELSE LET rest == ClassifyBlock(Tail(lines), args)
         IN  [crashed |-> rest.crashed,
              out |-> IF rest.crashed THEN <<>>
                      ELSE LineWritten(Head(lines), args) \o rest.out]

\* A job is the tuple (nblock, filein_name); the temp file is known by its
\* block number.  The sentinel is Python's None, which `if job:' takes as
\* false where every tuple is true.
Job(nb) == <<nb>>
Sentinel == <<>>

HardIdle ==
    /\ hargs = [input |-> <<>>, block_size |-> 1, processes |-> 1, scol |-> 1,
                tcol |-> 2, annotated_output |-> FALSE, rules |-> DefaultArgs]
    /\ mainpc = "idle"
    /\ nline = 0 /\ nblock = 0 /\ mytemp = <<>>
    /\ sentinels = 0 /\ joined = 0
    /\ jobs_queue = <<>> /\ output_queue = <<>>
    /\ mapfiles = <<>> /\ outfiles = <<>>
    /\ wpc = <<>> /\ wjob = <<>> /\ wsent = <<>>
    /\ enqueued = <<>>
    /\ rpc = "idle" /\ h = {} /\ last_block = 0
    /\ written = <<>> /\ output = <<>>

\* perform_hardrules_filtering: the queues made, the reducer and the
\* workers started, the mapper about to read its first line.
HardInit ==
    /\ hargs \in HardArgs
    /\ mainpc = "mapping"
    /\ nline = 0 /\ nblock = 0 /\ mytemp = <<>>
    /\ sentinels = 0 /\ joined = 0
    /\ jobs_queue = <<>> /\ output_queue = <<>>
    /\ mapfiles = <<>> /\ outfiles = <<>>
    /\ wpc = [w \in Workers(hargs) |-> "get"]
    /\ wjob = [w \in Workers(hargs) |-> 0]
    /\ wsent = [w \in Workers(hargs) |-> 0]
    /\ enqueued = <<>>
    /\ rpc = "run" /\ h = {} /\ last_block = 0
    /\ written = <<>> /\ output = <<>>

\* mapping_process, one line of `for line in args.input'.  mytemp is <<>>
\* for None and <<lines>> for an open temp file.
MapLine ==
    /\ mainpc = "mapping"
    /\ nline < Len(hargs.input)
    /\ LET line == hargs.input[nline + 1]
           newblock == (nline % hargs.block_size) = 0
           put == newblock /\ mytemp # <<>>
       IN  /\ put => CanPut(jobs_queue, hargs)
           /\ IF put
              THEN /\ jobs_queue' = Append(jobs_queue, Job(nblock))
                   /\ enqueued' = Append(enqueued, Job(nblock))
                   /\ mapfiles' = (nblock :> mytemp[1]) @@ mapfiles
                   /\ nblock' = nblock + 1
              ELSE UNCHANGED <<jobs_queue, enqueued, mapfiles, nblock>>
           /\ mytemp' = IF newblock THEN << <<line>> >>
                        ELSE << Append(mytemp[1], line) >>
           /\ nline' = nline + 1
    /\ UNCHANGED notHard
    /\ UNCHANGED <<hargs, mainpc, sentinels, joined, output_queue, outfiles,
                   wpc, wjob, wsent, rpc, h, last_block, written, output>>

\* mapping_process without its last lines: the loop is left and nothing is put.
MapLastDropped ==
    /\ mainpc = "mapping"
    /\ nline = Len(hargs.input)
    /\ mainpc' = "sentinels"
    /\ UNCHANGED notHard
    /\ UNCHANGED <<hargs, nline, nblock, mytemp, sentinels, joined, jobs_queue,
                   enqueued, mapfiles, output_queue, outfiles, wpc, wjob, wsent,
                   rpc, h, last_block, written, output>>

\* mapping_process after the loop: `if nline > 0' the last block is put.
MapLast ==
    /\ mainpc = "mapping"
    /\ nline = Len(hargs.input)
    /\ IF nline > 0
       THEN /\ CanPut(jobs_queue, hargs)
            /\ jobs_queue' = Append(jobs_queue, Job(nblock))
            /\ enqueued' = Append(enqueued, Job(nblock))
            /\ mapfiles' = (nblock :> mytemp[1]) @@ mapfiles
       ELSE UNCHANGED <<jobs_queue, enqueued, mapfiles>>
    /\ mainpc' = "sentinels"
    /\ UNCHANGED notHard
    /\ UNCHANGED <<hargs, nline, nblock, mytemp, sentinels, joined,
                   output_queue, outfiles, wpc, wjob, wsent, rpc, h,
                   last_block, written, output>>

\* `for _ in workers: jobs_queue.put(None)'
PutWorkerSentinel ==
    /\ mainpc = "sentinels"
    /\ CanPut(jobs_queue, hargs)
    /\ jobs_queue' = Append(jobs_queue, Sentinel)
    /\ enqueued' = Append(enqueued, Sentinel)
    /\ sentinels' = sentinels + 1
    /\ mainpc' = IF sentinels + 1 = process_count(hargs) THEN "join" ELSE "sentinels"
    /\ UNCHANGED notHard
    /\ UNCHANGED <<hargs, nline, nblock, mytemp, joined, output_queue, mapfiles,
                   outfiles, wpc, wjob, wsent, rpc, h, last_block, written, output>>

\* `for w in workers: w.join()': join returns once the process has ended,
\* by leaving its loop or by an uncaught exception.
JoinWorker ==
    /\ mainpc = "join"
    /\ wpc[joined + 1] \in {"exited", "crashed"}
    /\ joined' = joined + 1
    /\ mainpc' = IF joined + 1 = process_count(hargs) THEN "reducer" ELSE "join"
    /\ UNCHANGED notHard
    /\ UNCHANGED <<hargs, nline, nblock, mytemp, sentinels, jobs_queue,
                   output_queue, mapfiles, outfiles, wpc, wjob, wsent, enqueued,
                   rpc, h, last_block, written, output>>

\* `output_queue.put(None)'
PutReducerSentinel ==
    /\ mainpc = "reducer"
    /\ CanPut(output_queue, hargs)
    /\ output_queue' = Append(output_queue, Sentinel)
    /\ mainpc' = "reduce.join"
    /\ UNCHANGED notHard
    /\ UNCHANGED <<hargs, nline, nblock, mytemp, sentinels, joined, jobs_queue,
                   mapfiles, outfiles, wpc, wjob, wsent, enqueued, rpc, h,
                   last_block, written, output>>

\* `reduce.join()'
JoinReducer ==
    /\ mainpc = "reduce.join"
    /\ rpc \in {"done", "crashed"}
    /\ mainpc' = "done"
    /\ UNCHANGED notHard
    /\ UNCHANGED <<hargs, nline, nblock, mytemp, sentinels, joined, jobs_queue,
                   output_queue, mapfiles, outfiles, wpc, wjob, wsent, enqueued,
                   rpc, h, last_block, written, output>>

\* worker_process: `job = jobs_queue.get()' and the block's classification.
\* An exception of wrong_tu is caught nowhere: it ends the process before
\* ojob is put.
WorkerGet(w) ==
    /\ wpc[w] = "get"
    /\ jobs_queue # <<>>
    /\ jobs_queue' = Tail(jobs_queue)
    /\ LET job == Head(jobs_queue)
       IN  IF job # Sentinel
           THEN LET nb == job[1]
                    res == ClassifyBlock(mapfiles[nb], hargs)
                IN  IF res.crashed
                    THEN /\ wpc' = [wpc EXCEPT ![w] = "crashed"]
                         /\ UNCHANGED <<outfiles, wjob, wsent>>
                    ELSE /\ wpc' = [wpc EXCEPT ![w] = "put"]
                         /\ outfiles' = (nb :> res.out) @@ outfiles
                         /\ wjob' = [wjob EXCEPT ![w] = nb]
                         /\ UNCHANGED wsent
           ELSE /\ wpc' = [wpc EXCEPT ![w] = "exited"]
                /\ wsent' = [wsent EXCEPT ![w] = @ + 1]
                /\ UNCHANGED <<outfiles, wjob>>
    /\ UNCHANGED notHard
    /\ UNCHANGED <<hargs, mainpc, nline, nblock, mytemp, sentinels, joined,
                   output_queue, mapfiles, enqueued, rpc, h, last_block,
                   written, output>>

\* worker_process: `output_queue.put(ojob)' and `os.unlink(filein_name)'.
WorkerPut(w) ==
    /\ wpc[w] = "put"
    /\ CanPut(output_queue, hargs)
    /\ output_queue' = Append(output_queue, Job(wjob[w]))
    /\ mapfiles' = Without(mapfiles, wjob[w])
    /\ wpc' = [wpc EXCEPT ![w] = "get"]
    /\ UNCHANGED notHard
    /\ UNCHANGED <<hargs, mainpc, nline, nblock, mytemp, sentinels, joined,
                   jobs_queue, outfiles, wjob, wsent, enqueued, rpc, h,
                   last_block, written, output>>

\* reduce_process, the inner while loop: one block popped and appended.
ReducePop ==
    /\ rpc = "run"
    /\ Ready(h, last_block)
    /\ LET nb == HeapMin(h)
       IN  /\ h' = h \ {nb}
           /\ last_block' = last_block + 1
           /\ output' = output \o outfiles[nb]
           /\ written' = Append(written, nb)
           /\ outfiles' = Without(outfiles, nb)
    /\ UNCHANGED notHard
    /\ UNCHANGED <<hargs, mainpc, nline, nblock, mytemp, sentinels, joined,
                   jobs_queue, output_queue, mapfiles, wpc, wjob, wsent,
                   enqueued, rpc>>

\* reduce_process: `job = output_queue.get()'.  On the sentinel the loop is
\* left; the drain after it calls heapq.heappop, a name the module never
\* imports, so a block ready there would end the reducer with a NameError.
ReduceGet ==
    /\ rpc = "run"
    /\ ~Ready(h, last_block)
    /\ output_queue # <<>>
    /\ output_queue' = Tail(output_queue)
    /\ LET job == Head(output_queue)
       IN  IF job # Sentinel
           THEN /\ h' = heappush(h, job[1])
                /\ UNCHANGED rpc
           ELSE /\ rpc' = IF Ready(h, last_block) THEN "crashed" ELSE "done"
                /\ UNCHANGED h
    /\ UNCHANGED notHard
    /\ UNCHANGED <<hargs, mainpc, nline, nblock, mytemp, sentinels, joined,
                   jobs_queue, mapfiles, outfiles, wpc, wjob, wsent, enqueued,
                   last_block, written, output>>

HardNext ==
    \/ MapLine \/ MapLast \/ PutWorkerSentinel \/ JoinWorker
    \/ PutReducerSentinel \/ JoinReducer
    \/ \E w \in Workers(hargs) : WorkerGet(w)
    \/ \E w \in Workers(hargs) : WorkerPut(w)
    \/ ReducePop \/ ReduceGet

(***************************************************************************)
(* mux_demux: the _mux and _demux threads around one translator            *)
(* subprocess.  A line is known by the document it came from and its place *)
(* there; its form tells what has been done to it.                         *)
(***************************************************************************)
Line(d, k, form) == [doc |-> d, idx |-> k, form |-> form]

\* doc.strip().split('\n') of a document of n lines.
Doc(d, n) == [k \in 1..n |-> Line(d, k, "text")]

\* (line + '\n').encode('utf-8')
Encoded(line) == [line EXCEPT !.form = "text\\n"]

\* The subprocess: one output line for one input line.
Translate(line) == [line EXCEPT !.form = "translated\\n"]

\* process_stdout.readline().decode('utf-8').strip()
Stripped(line) ==
    [line EXCEPT !.form = IF @ = "translated\\n" THEN "translated"
                          ELSE IF @ = "text\\n" THEN "text" ELSE @]

\* The token a finished document leaves on the queue.  It is a pair, the
\* poison (Python's None) is not.
TokenOneLine(i, count) == <<i, 1>>
Token(i, count) == <<i, count>>
Poison == <<>>

NDocs == Cardinality(DOMAIN docs)

MuxIdle ==
    /\ tree = <<>> /\ docs = <<>>
    /\ caps = [wbuf |-> 1, stdin |-> 1, stdout |-> 1]
    /\ mdpc = "idle" /\ muxpc = "idle" /\ demuxpc = "idle"
    /\ mux_i = 0 /\ mux_sents = <<>> /\ mux_count = 0
    /\ wbuf = <<>> /\ stdin_pipe = <<>> /\ stdout_pipe = <<>> /\ q = <<>>
    /\ demux_i = 0 /\ demux_count = 0 /\ demux_sents = <<>>

\* mux_demux has made the queue and started both threads.
MuxInit ==
    /\ \E n \in 0..MaxDocs : \E lens \in [0..(n - 1) -> 1..MaxDocLines] :
          tree = [d \in 0..(n - 1) |-> Doc(d, lens[d])]
    /\ docs = tree
    /\ caps \in [wbuf : 1..MaxCap, stdin : 1..MaxCap, stdout : 1..MaxCap]
    /\ mdpc = "muxer.join" /\ muxpc = "for" /\ demuxpc = "get"
    /\ mux_i = 0 /\ mux_sents = <<>> /\ mux_count = 0
    /\ wbuf = <<>> /\ stdin_pipe = <<>> /\ stdout_pipe = <<>> /\ q = <<>>
    /\ demux_i = 0 /\ demux_count = 0 /\ demux_sents = <<>>

\* _mux: `for i, doc in enumerate(docs)' takes the next document, or ends.
MuxFor ==
    /\ muxpc = "for"
    /\ IF mux_i < NDocs
       THEN /\ mux_sents' = docs[mux_i]
            /\ mux_count' = 0
            /\ muxpc' = "write"
       ELSE /\ muxpc' = "poison"
            /\ UNCHANGED <<mux_sents, mux_count>>
    /\ UNCHANGED notMux
    /\ UNCHANGED <<tree, docs, caps, mdpc, mux_i, wbuf, stdin_pipe,
                   stdout_pipe, q, demuxpc, demux_i, demux_count, demux_sents>>

\* _mux: process_stdin.write(line) with room in the writer's buffer.
MuxWrite ==
    /\ muxpc = "write" /\ mux_sents # <<>>
    /\ Len(wbuf) < caps.wbuf
    /\ wbuf' = Append(wbuf, Encoded(Head(mux_sents)))
    /\ mux_sents' = Tail(mux_sents)
    /\ mux_count' = mux_count + 1
    /\ UNCHANGED notMux
    /\ UNCHANGED <<tree, docs, caps, mdpc, muxpc, mux_i, stdin_pipe,
                   stdout_pipe, q, demuxpc, demux_i, demux_count, demux_sents>>

\* _mux: the writer's buffer goes to the pipe, a line at a time as the pipe
\* has room: when write finds the buffer full, and when close flushes.
MuxFlush ==
    /\ \/ muxpc = "write" /\ mux_sents # <<>> /\ Len(wbuf) >= caps.wbuf
       \/ muxpc = "flush"
       \/ muxpc = "close"
    /\ wbuf # <<>>
    /\ Len(stdin_pipe) < caps.stdin
    /\ stdin_pipe' = Append(stdin_pipe, Head(wbuf))
    /\ wbuf' = Tail(wbuf)
    /\ muxpc' = IF muxpc = "close" THEN "close"
                ELSE IF Tail(wbuf) = <<>> THEN "write" ELSE "flush"
    /\ UNCHANGED notMux
    /\ UNCHANGED <<tree, docs, caps, mdpc, mux_i, mux_sents, mux_count,
                   stdout_pipe, q, demuxpc, demux_i, demux_count, demux_sents>>

\* _mux: q.put((i, count)) after the last line of the document.
MuxPut ==
    /\ muxpc = "write" /\ mux_sents = <<>>
    /\ q' = Append(q, Token(mux_i, mux_count))
    /\ mux_i' = mux_i + 1
    /\ muxpc' = "for"
    /\ UNCHANGED notMux
    /\ UNCHANGED <<tree, docs, caps, mdpc, mux_sents, mux_count, wbuf,
                   stdin_pipe, stdout_pipe, demuxpc, demux_i, demux_count,
                   demux_sents>>

\* _mux: q.put(None)
MuxPoison ==
    /\ muxpc = "poison"
    /\ q' = Append(q, Poison)
    /\ muxpc' = "close"
    /\ UNCHANGED notMux
    /\ UNCHANGED <<tree, docs, caps, mdpc, mux_i, mux_sents, mux_count, wbuf,
                   stdin_pipe, stdout_pipe, demuxpc, demux_i, demux_count,
                   demux_sents>>

\* _mux: process_stdin.close() returns once the buffer is flushed.
MuxClose ==
    /\ muxpc = "close" /\ wbuf = <<>>
    /\ muxpc' = "done"
    /\ UNCHANGED notMux
    /\ UNCHANGED <<tree, docs, caps, mdpc, mux_i, mux_sents, mux_count, wbuf,
                   stdin_pipe, stdout_pipe, q, demuxpc, demux_i, demux_count,
                   demux_sents>>

\* The subprocess reads a line and writes its translation.
Subprocess ==
    /\ stdin_pipe # <<>>
    /\ Len(stdout_pipe) < caps.stdout
    /\ stdout_pipe' = Append(stdout_pipe, Translate(Head(stdin_pipe)))
    /\ stdin_pipe' = Tail(stdin_pipe)
    /\ UNCHANGED notMux
    /\ UNCHANGED <<tree, docs, caps, mdpc, muxpc, mux_i, mux_sents, mux_count,
                   wbuf, q, demuxpc, demux_i, demux_count, demux_sents>>

\* _demux: item = q.get()
DemuxGet ==
    /\ demuxpc = "get" /\ q # <<>>
    /\ q' = Tail(q)
    /\ LET item == Head(q)
       IN  IF item = Poison
           THEN /\ demuxpc' = "done"
                /\ UNCHANGED <<demux_i, demux_count, demux_sents>>
           ELSE /\ demux_i' = item[1]
                /\ demux_count' = item[2]
                /\ demux_sents' = <<>>
                /\ demuxpc' = "read"
    /\ UNCHANGED notMux
    /\ UNCHANGED <<tree, docs, caps, mdpc, muxpc, mux_i, mux_sents, mux_count,
                   wbuf, stdin_pipe, stdout_pipe>>

\* _demux: one readline of `for l in range(count)'.
DemuxRead ==
    /\ demuxpc = "read" /\ Len(demux_sents) < demux_count
    /\ stdout_pipe # <<>>
    /\ demux_sents' = Append(demux_sents, Stripped(Head(stdout_pipe)))
    /\ stdout_pipe' = Tail(stdout_pipe)
    /\ UNCHANGED notMux
    /\ UNCHANGED <<tree, docs, caps, mdpc, muxpc, mux_i, mux_sents, mux_count,
                   wbuf, stdin_pipe, q, demuxpc, demux_i, demux_count>>

\* _demux: docs[i] = '\n'.join(sents)
DemuxStore ==
    /\ demuxpc = "read" /\ Len(demux_sents) >= demux_count
    /\ docs' = [docs EXCEPT ![demux_i] = demux_sents]
    /\ demuxpc' = "get"
    /\ UNCHANGED notMux
    /\ UNCHANGED <<tree, caps, mdpc, muxpc, mux_i, mux_sents, mux_count, wbuf,
                   stdin_pipe, stdout_pipe, q, demux_i, demux_count,
                   demux_sents>>

\* mux_demux: muxer.join()
JoinMuxer ==
    /\ mdpc = "muxer.join" /\ muxpc = "done"
    /\ mdpc' = "demuxer.join"
    /\ UNCHANGED notMux
    /\ UNCHANGED <<tree, docs, caps, muxpc, mux_i, mux_sents, mux_count, wbuf,
                   stdin_pipe, stdout_pipe, q, demuxpc, demux_i, demux_count,
                   demux_sents>>

\* mux_demux: demuxer.join()
JoinDemuxer ==
    /\ mdpc = "demuxer.join" /\ demuxpc = "done"
    /\ mdpc' = "returned"
    /\ UNCHANGED notMux
    /\ UNCHANGED <<tree, docs, caps, muxpc, mux_i, mux_sents, mux_count, wbuf,
                   stdin_pipe, stdout_pipe, q, demuxpc, demux_i, demux_count,
                   demux_sents>>

MuxNext ==
    \/ MuxFor \/ MuxWrite \/ MuxFlush \/ MuxPut \/ MuxPoison \/ MuxClose
    \/ Subprocess
    \/ DemuxGet \/ DemuxRead \/ DemuxStore
    \/ JoinMuxer \/ JoinDemuxer

(***************************************************************************)
(* pll_single / pll_multi: split the input, run the function on every      *)
(* piece, concatenate what it returned.                                    *)
(***************************************************************************)
\* An input file of n lines; a line is known by its file and its number.
File(f, n) == [k \in 1..n |-> <<f, k>>]

\* `if not length'
NoLengthNever(length) == FALSE
NoLength(length) == length = 0

\* lines_per_job = math.floor(length / n_jobs), or length if that is 0
LinesPerJob(length, n_jobs) ==
    IF length \div n_jobs = 0 THEN length ELSE length \div n_jobs

RECURSIVE Pow(_, _)
Pow(b, e) == IF e = 0 THEN 1 ELSE b * Pow(b, e - 1)

\* j written with `width' letters, the most significant first.
RECURSIVE Digits(_, _)
Digits(j, width) ==
    IF width = 0 THEN <<>>
    ELSE Append(Digits(j \div SuffixLetters, width - 1), j % SuffixLetters)

\* The suffix split gives its j-th output file (from 0): two letters while
\* the first is not the last letter of the alphabet (aa .. yz), then the
\* last letter and three letters (zaaa .. zyzz), and so on.
RECURSIVE SuffixIn(_, _)
SuffixIn(g, j) ==
    LET size == (SuffixLetters - 1) * Pow(SuffixLetters, g + 1)
    IN  IF j < size
        THEN [k \in 1..g |-> SuffixLetters - 1] \o Digits(j, g + 2)
        ELSE SuffixIn(g + 1, j - size)

SuffixReversed(j) ==
    LET s == SuffixIn(0, j) IN [k \in 1..Len(s) |-> s[Len(s) + 1 - k]]
Suffix(j) == SuffixIn(0, j)

\* split -l lines_per_job fp subname: the files it makes in temp_dir.
\* (split refuses -l 0 and makes nothing.)
NumPieces(length, lpj) == IF lpj = 0 THEN 0 ELSE (length + lpj - 1) \div lpj
Min(a, b) == IF a <= b THEN a ELSE b
split(lpj, fp, ident) ==
    { [file |-> ident, suffix |-> Suffix(j),
       lines |-> SubSeq(fp, j * lpj + 1, Min((j + 1) * lpj, Len(fp)))] :
      j \in 0..(NumPieces(Len(fp), lpj) - 1) }

\* os.listdir(temp_dir): the names, each an ident and a suffix.
listdir(dir) == { [file |-> r.file, suffix |-> r.suffix] : r \in dir }
Content(dir, name) ==
    (CHOOSE r \in dir : r.file = name.file /\ r.suffix = name.suffix).lines

\* The order of Python strings, on the suffixes and on the names
\* "file<i>.tmp.<suffix>" (fewer than ten files).
RECURSIVE LexLess(_, _)
LexLess(a, b) ==
    IF a = <<>> THEN b # <<>>
    ELSE IF b = <<>> THEN FALSE
    ELSE IF Head(a) # Head(b) THEN Head(a) < Head(b)
    ELSE LexLess(Tail(a), Tail(b))
NameLess(a, b) ==
    a.file < b.file \/ (a.file = b.file /\ LexLess(a.suffix, b.suffix))

RECURSIVE sorted(_)
sorted(S) ==
    IF S = {} THEN <<>>
    ELSE LET m == CHOOSE x \in S : \A y \in S \ {x} : NameLess(x, y)
         IN  <<m>> \o sorted(S \ {m})

\* `if ident in piece' (`if 'piece' in piece' for pll_single)
IdentIn(ident, piece) == piece.file = ident

\* zip(*lists_of_splits): as many items as the shortest list has pieces.
ZipLen(lists) ==
    IF lists = <<>> THEN 0
    ELSE CHOOSE n \in { Len(lists[i]) : i \in DOMAIN lists } :
            \A i \in DOMAIN lists : n <= Len(lists[i])
zipped(lists) ==
    [j \in 1..ZipLen(lists) |-> [i \in DOMAIN lists |-> lists[i][j]]]

\* The function run on the pieces: it returns its input pieces unchanged.
function(item) == item

\* cat out[1] out[2] ... > catted_fp
RECURSIVE cat(_, _)
cat(dir, outs) ==
    IF outs = <<>> THEN <<>>
    ELSE Content(dir, Head(outs)) \o cat(dir, Tail(outs))

PllCalls ==
    { [function |-> "pll_single", parallel_files |-> <<File(1, len)>>,
       n_jobs |-> n] : len \in 0..MaxFileLen, n \in 1..MaxJobs }
    \cup
    { [function |-> "pll_multi",
       parallel_files |-> [f \in 1..nf |-> File(f, len)],
       n_jobs |-> n] :
      nf \in 1..MaxFiles, len \in 0..MaxFileLen, n \in 1..MaxJobs }

NoCall == [function |-> "none", parallel_files |-> <<>>, n_jobs |-> 1]

PllIdle ==
    /\ pll = NoCall /\ pllpc = "idle"
    /\ lines_per_job = 0 /\ temp_dir = {} /\ lists_of_splits = <<>>
    /\ result = <<>> /\ calls = 0 /\ catted = <<>>

\* The call entered: outdir and the empty temp_dir made.
PllInit ==
    /\ pll \in PllCalls /\ pllpc = "length"
    /\ lines_per_job = 0 /\ temp_dir = {} /\ lists_of_splits = <<>>
    /\ result = <<>> /\ calls = 0 /\ catted = <<>>

\* length = get_file_length(first file); PllError if it is 0.
PllLength ==
    /\ pllpc = "length"
    /\ LET length == Len(pll.parallel_files[1])
       IN  IF NoLength(length)
           THEN /\ pllpc' = "PllError"
                /\ UNCHANGED lines_per_job
           ELSE /\ lines_per_job' = LinesPerJob(length, pll.n_jobs)
                /\ pllpc' = "split"
    /\ UNCHANGED notPll
    /\ UNCHANGED <<pll, temp_dir, lists_of_splits, result, calls, catted>>

\* One file split and its pieces listed: the body of
\* `for i, fp in enumerate(parallel_files)' (pll_single has one file).
\* After the last file the jobs are handed to Parallel.
PllSplit ==
    /\ pllpc = "split"
    /\ LET i == Len(lists_of_splits) + 1
           dir == temp_dir \cup split(lines_per_job, pll.parallel_files[i], i)
           subfiles == sorted({ piece \in listdir(dir) : IdentIn(i, piece) })
           lists == Append(lists_of_splits, subfiles)
       IN  /\ temp_dir' = dir
           /\ lists_of_splits' = lists
           /\ IF i = Len(pll.parallel_files)
              THEN /\ pllpc' = "Parallel"
                   /\ result' = [j \in 1..ZipLen(lists) |-> <<>>]
              ELSE UNCHANGED <<pllpc, result>>
    /\ UNCHANGED notPll
    /\ UNCHANGED <<pll, lines_per_job, calls, catted>>

\* Parallel: job j ends, whichever the others that have; what function
\* returned goes to place j of the result list.
PllJob(j) ==
    /\ pllpc = "Parallel"
    /\ result[j] = <<>>
    /\ result' = [result EXCEPT ![j] = function(zipped(lists_of_splits)[j])]
    /\ calls' = calls + 1
    /\ UNCHANGED notPll
    /\ UNCHANGED <<pll, pllpc, lines_per_job, temp_dir, lists_of_splits,
                   catted>>

\* All jobs ended: outs = zip(*result), one cat per output, the pieces
\* removed and temp_dir cleaned up.  (pll_single runs its one cat even with
\* nothing to concatenate.)
PllCat ==
    /\ pllpc = "Parallel"
    /\ \A j \in DOMAIN result : result[j] # <<>>
    /\ LET nout == IF pll.function = "pll_single" THEN 1
                   ELSE IF result = <<>> THEN 0 ELSE Len(pll.parallel_files)
       IN  catted' = [i \in 1..nout |->
                        cat(temp_dir, [j \in DOMAIN result |-> result[j][i]])]
    /\ temp_dir' = {}
    /\ pllpc' = "returned"
    /\ UNCHANGED notPll
    /\ UNCHANGED <<pll, lines_per_job, lists_of_splits, result, calls>>

PllNext ==
    \/ PllLength \/ PllSplit
    \/ \E j \in DOMAIN result : PllJob(j)
    \/ PllCat

(***************************************************************************)
(* extract_tags / reinsert_tags.  A text is a sequence of tokens: a word   *)
(* character, a blank, an inline tag, a bare-domain URL, an email address, *)
(* and the placeholders extract_tags makes.  A URL or an email address     *)
(* stands between two blanks.                                              *)
(***************************************************************************)
Word == "x"
Blank == " "
InlineTag == "<b>"
Url == "example.com"
Email == "a@b.org"
Alphabet == {Word, Blank, InlineTag, Url, Email}

Delimited(text) ==
    \A p \in DOMAIN text :
        text[p] \in {Url, Email} =>
            /\ 1 < p /\ p < Len(text)
            /\ text[p - 1] = Blank /\ text[p + 1] = Blank

Texts == { text \in SeqsUpTo(Alphabet, MaxTokens) : Delimited(text) }

\* TAG_TEMPL, URL_TEMPL, EMAIL_TEMPL formatted with i.
TEMPL(j, i) ==
    LET name == IF j = 0 THEN "TAG" ELSE IF j = 1 THEN "URL" ELSE "EML"
    IN  <<Blank, "[" \o name \o ToString(i) \o "]", Blank>>

\* The blanks of text from place p on.
RECURSIVE Blanks(_, _)
Blanks(text, p) ==
    IF p <= Len(text) /\ text[p] = Blank THEN 1 + Blanks(text, p + 1) ELSE 0

\* TAG_REGEX at p: blanks, a tag, blanks.  The length matched, 0 for none.
TagAt(text, p) ==
    LET k == Blanks(text, p)
    IN  IF p + k <= Len(text) /\ text[p + k] = InlineTag
        THEN k + 1 + Blanks(text, p + k + 1)
        ELSE 0

\* URL_REGEX and EMAIL_REGEX at p: a non-word character, the body, a
\* non-word character.  The length matched, 0 for none.
SpanAt(text, p, body) ==
    IF /\ p + 2 <= Len(text)
       /\ text[p] = Blank /\ text[p + 1] = body /\ text[p + 2] = Blank
    THEN 3 ELSE 0

\* re.findall(REGEX, text) from place p on: the matches left to right, none
\* overlapping, each with the group j that matched.
RECURSIVE findall(_, _)
findall(text, p) ==
    IF p > Len(text) THEN <<>>
    ELSE LET t == TagAt(text, p)
             u == SpanAt(text, p, Url)
             e == SpanAt(text, p, Email)
             n == IF t > 0 THEN t ELSE IF u > 0 THEN u ELSE e
             j == IF t > 0 THEN 0 ELSE IF u > 0 THEN 1 ELSE 2
         IN  IF n = 0 THEN findall(text, p + 1)
             ELSE <<[j |-> j, m |-> SubSeq(text, p, p + n - 1)]>>
                  \o findall(text, p + n)

\* text.find(sub) from 1, 0 for not found.
Find(text, sub) ==
    LET ps == { p \in 1..(Len(text) - Len(sub) + 1) :
                  SubSeq(text, p, p + Len(sub) - 1) = sub }
    IN  IF ps = {} THEN 0 ELSE CHOOSE p \in ps : \A r \in ps : p <= r

\* text.replace(old, new, 1)
replace(text, old, new) ==
    LET p == Find(text, old)
    IN  IF p = 0 THEN text
        ELSE SubSeq(text, 1, p - 1) \o new
             \o SubSeq(text, p + Len(old), Len(text))

\* tag.strip()
RECURSIVE lstrip(_)
lstrip(text) ==
    IF text # <<>> /\ Head(text) = Blank THEN lstrip(Tail(text)) ELSE text
RECURSIVE rstrip(_)
rstrip(text) ==
    IF text # <<>> /\ text[Len(text)] = Blank
    THEN rstrip(SubSeq(text, 1, Len(text) - 1)) ELSE text
strip(text) == rstrip(lstrip(text))

\* extract_tags: the loop over the matches, from match i (from 0) on.
RECURSIVE extract_from(_, _, _, _)
extract_from(matches, i, text, found) ==
    IF i >= Len(matches) THEN <<text, found>>
    ELSE LET m == matches[i + 1].m
             repl == TEMPL(matches[i + 1].j, i)
         IN  extract_from(matches, i + 1, replace(text, m, repl),
                          Append(found, <<repl, m>>))

extract_tags(text) == extract_from(findall(text, 1), 0, text, <<>>)

\* reinsert_tags without its else branch.
RECURSIVE reinsert_tags_found(_, _)
reinsert_tags_found(text, records) ==
    IF records = <<>> THEN text
    ELSE LET tag == strip(Head(records)[1])
             item == Head(records)[2]
         IN  reinsert_tags_found(IF Find(text, tag) # 0
                                 THEN replace(text, tag, item)
                                 ELSE text,
                                 Tail(records))

RECURSIVE reinsert_tags(_, _)
reinsert_tags(text, records) ==
    IF records = <<>> THEN text
    ELSE LET tag == strip(Head(records)[1])
             item == Head(records)[2]
         IN  reinsert_tags(IF Find(text, tag) # 0
                           THEN replace(text, tag, item)
                           ELSE text \o <<Blank>> \o item,
                           Tail(records))

TagsIdle ==
    /\ tagtext = <<>> /\ tagpc = "idle"
    /\ cleaned = <<>> /\ tags = <<>> /\ restored = <<>>
    /\ translation = <<>> /\ retagged = <<>>

TagsInit ==
    /\ tagtext \in Texts /\ tagpc = "start"
    /\ cleaned = <<>> /\ tags = <<>> /\ restored = <<>>
    /\ translation = <<>> /\ retagged = <<>>

ExtractTags ==
    /\ tagpc = "start"
    /\ cleaned' = extract_tags(tagtext)[1]
    /\ tags' = extract_tags(tagtext)[2]
    /\ tagpc' = "extracted"
    /\ UNCHANGED notTags
    /\ UNCHANGED <<tagtext, restored, translation, retagged>>

ReinsertTags ==
    /\ tagpc = "extracted"
    /\ restored' = reinsert_tags(cleaned, tags)
    /\ tagpc' = "reinserted"
    /\ UNCHANGED notTags
    /\ UNCHANGED <<tagtext, cleaned, tags, translation, retagged>>

\* The placeholders of the records.
Placeholders(records) == { strip(records[i][1]) : i \in DOMAIN records }

\* text without the tokens at the places of drop.
RECURSIVE Dropped(_, _, _)
Dropped(text, drop, p) ==
    IF p > Len(text) THEN <<>>
    ELSE (IF p \in drop THEN <<>> ELSE <<text[p]>>) \o Dropped(text, drop, p + 1)

\* The translator gives the cleaned text back with some of the placeholders
\* missing.
Translator ==
    /\ tagpc = "extracted"
    /\ \E drop \in SUBSET { p \in DOMAIN cleaned :
                               <<cleaned[p]>> \in Placeholders(tags) } :
          translation' = Dropped(cleaned, drop, 1)
    /\ tagpc' = "translated"
    /\ UNCHANGED notTags
    /\ UNCHANGED <<tagtext, cleaned, tags, restored, retagged>>

ReinsertTranslated ==
    /\ tagpc = "translated"
    /\ retagged' = reinsert_tags(translation, tags)
    /\ tagpc' = "retagged"
    /\ UNCHANGED notTags
    /\ UNCHANGED <<tagtext, cleaned, tags, restored, translation>>

TagsNext == ExtractTags \/ ReinsertTags \/ Translator \/ ReinsertTranslated

(***************************************************************************)
(* The sharding tool: main of shard_data.py.  A file is known by its       *)
(* dataset and its side, a line by its number in the file.                 *)
(***************************************************************************)
\* The manifests: each dataset has a src file of some length and, unless it
\* is monolingual, a tgt file of the same length.  max_n_shards is 0 for
\* None.
Datasets == [length : 0..MaxDataLen, tgt : BOOLEAN]
ShardArgs ==
    [data : UNION { [1..n -> Datasets] : n \in 1..MaxDatasets },
     min_n_shards : 1..MaxMinShards,
     max_n_shards : 0..MaxMaxShards,
     replicate : BOOLEAN]

NoShardArgs ==
    [data |-> <<>>, min_n_shards |-> 1, max_n_shards |-> 0,
     replicate |-> FALSE]

Src(k) == <<k, "src">>
Tgt(k) == <<k, "tgt">>

\* `//' with a NumPy integer on the right: a zero divisor gives 0 and a
\* warning.
floor_divide(a, b) == IF b = 0 THEN 0 ELSE a \div b

\* The loop over pconfig['data']: the files to shard and their lengths.
RECURSIVE LineCounts(_, _)
LineCounts(datasets, k) ==
    IF k > Len(datasets) THEN <<>>
    ELSE (IF datasets[k].length = 0 THEN <<>>
          ELSE <<[fp |-> Src(k), length |-> datasets[k].length]>>
               \o (IF datasets[k].tgt
                   THEN <<[fp |-> Tgt(k), length |-> datasets[k].length]>>
                   ELSE <<>>))
         \o LineCounts(datasets, k + 1)

\* np.min and np.max of a non-empty list.
np_min(list) == CHOOSE x \in Range(list) : \A y \in Range(list) : x <= y
np_max(list) == CHOOSE x \in Range(list) : \A y \in Range(list) : x >= y

\* shard_data_n_lines: the number of shards of a file.
NShards(length, n_lines, max_n) ==
    LET n0 == floor_divide(length, n_lines)
        n1 == IF n0 = 0 THEN 1 ELSE n0
    IN  IF max_n # 0 /\ n1 > max_n THEN max_n ELSE n1

\* shard_data_n_shards: the shard files written for fp, of `length' lines.
shard_data_n_shards(fp, n_shards, length) ==
    LET lines_per_shard == IF n_shards = 1 THEN length ELSE length \div n_shards
        extras == length % n_shards
    IN  { [shard |-> i, name |-> fp,
           lines |-> [x \in 1..lines_per_shard |-> (i - 1) * lines_per_shard + x]
                     \o (IF i <= extras
                         THEN <<n_shards * lines_per_shard + i>> ELSE <<>>)] :
          i \in 1..n_shards }

\* `while current < max_shard_id'
NeedsCopyShort(cur, max_id) == cur + 1 < max_id
NeedsCopy(cur, max_id) == cur < max_id

Exists(dir, i, name) == \E f \in dir : f.shard = i /\ f.name = name
FileAt(dir, i, name) == CHOOSE f \in dir : f.shard = i /\ f.name = name

\* shutil.copy(src, dst)
copy(dir, i, j, name) ==
    { f \in dir : ~(f.shard = j /\ f.name = name) }
    \cup {[shard |-> j, name |-> name, lines |-> FileAt(dir, i, name).lines]}

ShardIdle ==
    /\ shargs = NoShardArgs /\ shpc = "idle"
    /\ line_counts = <<>> /\ min_size = 0 /\ sharded = <<>> /\ outdir = {}
    /\ max_shard_id = 0 /\ rep_fp = 0 /\ avail = 0 /\ current = 0
    /\ shifting = 0

ShardInit ==
    /\ shargs \in ShardArgs /\ shpc = "count"
    /\ line_counts = <<>> /\ min_size = 0 /\ sharded = <<>> /\ outdir = {}
    /\ max_shard_id = 0 /\ rep_fp = 0 /\ avail = 0 /\ current = 0
    /\ shifting = 0

\* main: line_counts and min_size.  np.min of no lengths raises ValueError.
ShardCount ==
    /\ shpc = "count"
    /\ LET counts == LineCounts(shargs.data, 1)
       IN  /\ line_counts' = counts
           /\ IF counts = <<>>
              THEN /\ shpc' = "ValueError"
                   /\ UNCHANGED min_size
              ELSE /\ min_size' =
                        np_min([i \in DOMAIN counts |-> counts[i].length])
                        \div shargs.min_n_shards
                   /\ shpc' = "shard"
    /\ UNCHANGED notShard
    /\ UNCHANGED <<shargs, sharded, outdir, max_shard_id, rep_fp, avail,
                   current, shifting>>

\* main: one file sharded, `for fp in list(line_counts.keys())'.
ShardFile ==
    /\ shpc = "shard" /\ Len(sharded) < Len(line_counts)
    /\ LET lc == line_counts[Len(sharded) + 1]
           n == NShards(lc.length, min_size, shargs.max_n_shards)
       IN  /\ outdir' = outdir \cup shard_data_n_shards(lc.fp, n, lc.length)
           /\ sharded' = Append(sharded, n)
    /\ UNCHANGED notShard
    /\ UNCHANGED <<shargs, shpc, line_counts, min_size, max_shard_id, rep_fp,
                   avail, current, shifting>>

\* main: max_shard_id, and on to the replication if it is asked for.
ShardMax ==
    /\ shpc = "shard" /\ Len(sharded) = Len(line_counts)
    /\ max_shard_id' = np_max(sharded)
    /\ IF shargs.replicate
       THEN /\ shpc' = "replicate"
            /\ rep_fp' = 1
            /\ avail' = sharded[1] /\ current' = sharded[1] /\ shifting' = 1
       ELSE /\ shpc' = "done"
            /\ UNCHANGED <<rep_fp, avail, current, shifting>>
    /\ UNCHANGED notShard
    /\ UNCHANGED <<shargs, line_counts, min_size, sharded, outdir>>

\* main: one turn of `while current < max_shard_id'.
ReplicateCopy ==
    /\ shpc = "replicate"
    /\ NeedsCopy(current, max_shard_id)
    /\ LET name == line_counts[rep_fp].fp
       IN  IF Exists(outdir, shifting, name)
           THEN /\ outdir' = copy(outdir, shifting, current + 1, name)
                /\ shifting' = IF shifting + 1 = avail THEN 1 ELSE shifting + 1
                /\ current' = current + 1
                /\ UNCHANGED shpc
           ELSE /\ shpc' = "FileNotFoundError"
                /\ UNCHANGED <<outdir, shifting, current>>
    /\ UNCHANGED notShard
    /\ UNCHANGED <<shargs, line_counts, min_size, sharded, max_shard_id,
                   rep_fp, avail>>

\* main: the while loop left, `for fp in sharded' goes on or ends.
ReplicateNext ==
    /\ shpc = "replicate"
    /\ ~NeedsCopy(current, max_shard_id)
    /\ IF rep_fp < Len(sharded)
       THEN /\ rep_fp' = rep_fp + 1
            /\ avail' = sharded[rep_fp + 1]
            /\ current' = sharded[rep_fp + 1]
            /\ shifting' = 1
            /\ UNCHANGED shpc
       ELSE /\ shpc' = "done"
            /\ UNCHANGED <<rep_fp, avail, current, shifting>>
    /\ UNCHANGED notShard
    /\ UNCHANGED <<shargs, line_counts, min_size, sharded, outdir,
                   max_shard_id>>

ShardNext ==
    \/ ShardCount \/ ShardFile \/ ShardMax \/ ReplicateCopy \/ ReplicateNext

(***************************************************************************)
(* The cleaning stages of clean.py, each called on one dataset.  A path is *)
(* the basename it is made from and what is put after it; a file has a     *)
(* content and the number of times it was written.                         *)
(***************************************************************************)
Stages == {"charfix", "bifix", "biclean", "langcheck", "tagprotect", "dedup"}

Path(base, ext) == <<base, ext>>

\* The suffix of the stage's src_outfp and tgt_outfp.
Ext(stage) ==
    CASE stage = "charfix" -> ".charfix"
      [] stage = "bifix" -> ".bifixed"
      [] stage = "biclean" -> ".bicleaned"
      [] stage = "langcheck" -> ".langfilter"
      [] stage = "tagprotect" -> ".tagprotect"
      [] stage = "dedup" -> ".dedup"

\* The dict the stage returns, skipping or not: a set of <<key, path>>.
Outputs(stage) ==
    {<<"src", Path("src", Ext(stage))>>, <<"tgt", Path("tgt", Ext(stage))>>}
    \cup (IF stage = "langcheck"
          THEN {<<"langids", Path("src", ".langids")>>} ELSE {})
    \cup (IF stage = "tagprotect"
          THEN {<<"src_repls", Path("src", ".tagprotect_repls")>>,
                <<"tgt_repls", Path("tgt", ".tagprotect_repls")>>}
          ELSE {})

OutputPaths(stage) == { o[2] : o \in Outputs(stage) }

\* `if os.path.exists(src_outfp) and os.path.exists(tgt_outfp) ...'
SkipNever(stage, files) == FALSE
Skip(stage, files) == OutputPaths(stage) \subseteq DOMAIN files

\* The files a stage makes on the way and removes before it returns.
Removed(stage) ==
    CASE stage = "bifix" ->
            {Path("src", ".tsv"), Path("src", ".tsv.bifixed.out")}
      [] stage = "biclean" ->
            {Path("src", ".tsv"), Path("src", ".tsv.annotated")}
      [] stage = "dedup" ->
            {Path("src", ".tsv"), Path("src", ".tsv.dedup")}
      [] stage = "langcheck" ->
            {Path("src", ".langfilter.0"), Path("src", ".langfilter.1"),
             Path("src", ".langfilter.2")}
      [] stage = "tagprotect" ->
            {Path("src", ".tagprotect.0"), Path("src", ".tagprotect.1"),
             Path("tgt", ".tagprotect.0"), Path("tgt", ".tagprotect.1")}
      [] OTHER -> {}

\* The files a stage makes on the way and leaves behind.
Kept(stage) ==
    IF stage = "biclean" THEN {Path("src", ".tsv.bicleaned")} ELSE {}

\* The stages that hand their input to pll_single / pll_multi, which raise
\* PllError on a file of no lines; and what such a stage has written by then.
UsesPll(stage) == stage \in {"bifix", "langcheck", "tagprotect"}
BeforePll(stage) == IF stage = "bifix" THEN {Path("src", ".tsv")} ELSE {}

\* files after `paths' were written with what the stage makes of the inputs
\* (draw tells the random choices of _tagprotect apart).
Write(files, paths, stage, draw) ==
    [f \in DOMAIN files \cup paths |->
        IF f \in paths
        THEN [content |-> <<stage, f, draw>>,
              writes |-> IF f \in DOMAIN files THEN files[f].writes + 1 ELSE 1]
        ELSE files[f]]

Remove(files, paths) == [f \in DOMAIN files \ paths |-> files[f]]

Returned(stage) == [raised |-> "none", paths |-> Outputs(stage)]
Raised(error) == [raised |-> error, paths |-> {}]

\* One call of a stage: what it leaves in `files' and what it returns.
Stage(stage, empty, files, draw) ==
    IF Skip(stage, files)
    THEN [fs |-> files, returned |-> Returned(stage)]
    ELSE IF UsesPll(stage) /\ empty
    THEN [fs |-> Write(files, BeforePll(stage), stage, draw),
          returned |-> Raised("PllError")]
    ELSE [fs |-> Remove(Write(files,
                              OutputPaths(stage) \cup Kept(stage)
                              \cup Removed(stage), stage, draw),
                        Removed(stage)),
          returned |-> Returned(stage)]

Old(paths) == [f \in paths |-> [content |-> <<"old", f, 0>>, writes |-> 0]]
Inputs == {Path("src", ""), Path("tgt", "")}

CleanIdle ==
    /\ clargs = [stage |-> "none", empty |-> FALSE]
    /\ fs = <<>> /\ clreturned = Raised("none") /\ ncalls = 0

\* Before the first call: the inputs, and any of the stage's outputs and
\* other files left from an earlier run.
CleanInit ==
    /\ clargs \in [stage : Stages, empty : BOOLEAN]
    /\ \E left \in SUBSET (OutputPaths(clargs.stage) \cup Kept(clargs.stage)
                          \cup BeforePll(clargs.stage)) :
          fs = Old(Inputs \cup left)
    /\ clreturned = Raised("none") /\ ncalls = 0

Call(stage) ==
    /\ clargs.stage = stage /\ ncalls < MaxCalls
    /\ \E draw \in (IF stage = "tagprotect" THEN {1, 2} ELSE {1}) :
          LET r == Stage(stage, clargs.empty, fs, draw)
          IN  fs' = r.fs /\ clreturned' = r.returned
    /\ ncalls' = ncalls + 1
    /\ UNCHANGED notClean
    /\ UNCHANGED clargs

charfix == Call("charfix")
bifix == Call("bifix")
biclean == Call("biclean")
langcheck == Call("langcheck")
tagprotect == Call("tagprotect")
dedup == Call("dedup")

CleanNext ==
    \/ charfix \/ bifix \/ biclean \/ langcheck \/ tagprotect \/ dedup

(***************************************************************************)
(* The resampler: main of resample_parallel.py.  A line is the sequence of *)
(* its characters as readline returns it; the two files of a dataset have  *)
(* the same number of lines.                                               *)
(***************************************************************************)
DatasetNames == {"en2fr", "fr2en"}

\* A dataset of `length' lines; line `blank' (none if 0) has nothing but
\* white space and a carriage return on side `side'.
ResampleDatasets ==
    { d \in [length : 1..MaxResampleLen, blank : 0..MaxResampleLen,
             side : {"src", "tgt"}, tgt_lang : {"fr"}] :
        d.blank <= d.length /\ (d.blank = 0 => d.side = "src") }

ResampleArgs ==
    { a \in [names : SUBSET DatasetNames, n : 0..MaxN,
             add_tag : BOOLEAN, dry_run : BOOLEAN,
             data : [DatasetNames -> ResampleDatasets]] :
        /\ a.names # {}
        /\ \A k \in DatasetNames \ a.names :
              a.data[k] = [length |-> 1, blank |-> 0, side |-> "src",
                           tgt_lang |-> "fr"] }

NoResampleArgs ==
    [names |-> {}, n |-> 0, add_tag |-> FALSE, dry_run |-> FALSE,
     data |-> <<>>]

\* Line i (from 0) of one file of a dataset, as written in the file.
LineOf(d, side, i) ==
    IF d.blank = i + 1 /\ d.side = side
    THEN <<" ", "\r", "\n">>
    ELSE <<" ", side, ToString(i), "\r", "\n">>

\* fh.readline() with the file standing at line p: '' at the end of file.
readline(d, side, p) == IF p < d.length THEN LineOf(d, side, p) ELSE <<>>

\* clean_line: the four replace('...', '').
CleanedChars == {"\r", "\\x00", "\\u200c", "\\ufeff"}
clean_line(line) == SelectSeq(line, LAMBDA ch : ch \notin CleanedChars)

\* str.strip(): white space off both ends.
Whitespace == {" ", "\n", "\r", "\t"}
RECURSIVE str_lstrip(_)
str_lstrip(line) ==
    IF line # <<>> /\ Head(line) \in Whitespace
    THEN str_lstrip(Tail(line)) ELSE line
RECURSIVE str_rstrip(_)
str_rstrip(line) ==
    IF line # <<>> /\ line[Len(line)] \in Whitespace
    THEN str_rstrip(SubSeq(line, 1, Len(line) - 1)) ELSE line
str_strip(line) == str_lstrip(str_rstrip(line))

\* f"<2{tgt_lang}> {src_line}"
LangTag(d) == <<"<2" \o d.tgt_lang \o ">", " ">>
Tagged(d, add_tag, src_line) ==
    IF add_tag THEN LangTag(d) \o src_line ELSE src_line

\* `if read_lines[dataset] == dataset_lengths[dataset]-1'
WrapsAt(rl, length) == rl = length - 1

ResampleIdle ==
    /\ rsargs = NoResampleArgs /\ rspc = "idle" /\ opened = FALSE /\ c = 0
    /\ read_lines = <<>> /\ pos = <<>> /\ reads = <<>> /\ out = <<>>
    /\ draws = 0

ResampleInit ==
    /\ rsargs \in ResampleArgs
    /\ rspc = "open" /\ opened = FALSE /\ c = 0
    /\ read_lines = [k \in rsargs.names |-> 0]
    /\ pos = [k \in rsargs.names |-> 0]
    /\ reads = [k \in rsargs.names |-> <<>>]
    /\ out = [k \in rsargs.names |-> <<>>]
    /\ draws = 0

\* `if not dry_run:' the input and output files are opened.
OpenFiles ==
    /\ rspc = "open"
    /\ opened' = ~rsargs.dry_run
    /\ rspc' = "loop"
    /\ UNCHANGED <<rsargs, c, read_lines, pos, reads, out, draws>>
    /\ UNCHANGED notResample

\* One iteration of `while c < n' with dry_run: `continue'.
DryDraw ==
    /\ rspc = "loop" /\ c < rsargs.n /\ rsargs.dry_run
    /\ draws < MaxDraws
    /\ \E dataset \in rsargs.names : draws' = draws + 1
    /\ UNCHANGED <<rsargs, rspc, opened, c, read_lines, pos, reads, out>>
    /\ UNCHANGED notResample

\* One iteration of `while c < n' on the dataset the multinomial gave.
Draw(dataset) ==
    /\ rspc = "loop" /\ c < rsargs.n /\ ~rsargs.dry_run
    /\ draws < MaxDraws
    /\ LET d == rsargs.data[dataset]
           rl == read_lines[dataset] + 1
           wraps == WrapsAt(rl, d.length)
           p == IF wraps THEN 0 ELSE pos[dataset]
           src_line == Tagged(d, rsargs.add_tag,
                              str_strip(clean_line(readline(d, "src", p))))
           tgt_line == str_strip(clean_line(readline(d, "tgt", p)))
       IN  /\ read_lines' = [read_lines EXCEPT
                                ![dataset] = IF wraps THEN 0 ELSE rl]
           /\ pos' = [pos EXCEPT
                         ![dataset] = IF p < d.length THEN p + 1 ELSE p]
           /\ reads' = [reads EXCEPT ![dataset] = Append(@, p)]
           /\ IF src_line # <<>> /\ tgt_line # <<>>
              THEN /\ out' = [out EXCEPT
                                 ![dataset] = Append(@, [src |-> src_line,
                                                         tgt |-> tgt_line,
                                                         line |-> p])]
                   /\ c' = c + 1
              ELSE UNCHANGED <<out, c>>
    /\ draws' = draws + 1
    /\ UNCHANGED <<rsargs, rspc, opened>>
    /\ UNCHANGED notResample

DrawAny == \E dataset \in rsargs.names : Draw(dataset)

\* The loop is left, the files are closed, final_counts is returned.
ResampleReturn ==
    /\ rspc = "loop" /\ ~(c < rsargs.n)
    /\ rspc' = "returned"
    /\ opened' = FALSE
    /\ UNCHANGED <<rsargs, c, read_lines, pos, reads, out, draws>>
    /\ UNCHANGED notResample

ResampleNext == OpenFiles \/ DryDraw \/ DrawAny \/ ResampleReturn

(***************************************************************************)
(* The manifest builder: collect_data_files of collect_data_files.py, with *)
(* no prefix, suffix, exclude or require.  None is "None".                 *)
(***************************************************************************)
LangCodes == {"en", "fr", "de"}

\* The bases a file can have: corpus.<lang> in direc and in direc/sub.
Bases == [dir : {"", "sub"}, stem : {"corpus"}]

\* The language lists: no language twice.
LangLists ==
    { l \in UNION { [1..n -> LangCodes] : n \in 2..MaxLangs } :
        \A i, j \in DOMAIN l : i # j => l[i] # l[j] }

CollectArgs ==
    [files : SUBSET (Bases \X LangCodes), langs : LangLists,
     ordered : {"None", "forward", "backward"}, unique : BOOLEAN,
     mono : BOOLEAN, skip : {{}, {"fr2en"}}]

NoCollectArgs ==
    [files |-> {}, langs |-> <<>>, ordered |-> "None", unique |-> TRUE,
     mono |-> FALSE, skip |-> {}]

\* list(permutations(langs, 2)): in the order of the positions.
RECURSIVE PairsFrom(_, _, _)
PairsFrom(langs, i, j) ==
    IF i > Len(langs) THEN <<>>
    ELSE IF j > Len(langs) THEN PairsFrom(langs, i + 1, 1)
    ELSE (IF i = j THEN <<>> ELSE << <<langs[i], langs[j]>> >>)
         \o PairsFrom(langs, i, j + 1)
permutations(langs) == PairsFrom(langs, 1, 1)

\* langs.index(lang)
index(langs, lang) == CHOOSE i \in DOMAIN langs : langs[i] = lang

\* os.walk and os.path.splitext: the bases of the files found.
WalkBases(files) == { f[1] : f \in files }

\* base + f'.{lang}', its basename, and whether the file is there.
basename(base, lang) == base.stem \o "." \o lang
Fp(base, lang) ==
    (IF base.dir = "" THEN "" ELSE base.dir \o "/") \o basename(base, lang)
exists(files, base, lang) == <<base, lang>> \in files

\* os.path.relpath(base, direc).replace('/', '-')
RelName(base) ==
    (IF base.dir = "" THEN "" ELSE base.dir \o "-") \o base.stem

\* '2'.join(direction), and the keys of data.
DirectionName(direction) == direction[1] \o "2" \o direction[2]
PairKey(direction, base) == DirectionName(direction) \o "_" \o RelName(base)
MonoKey(lang, base) == lang \o "_mono_" \o RelName(base)

\* `if ordered == 'forward': if langs.index(src_lang) > langs.index(tgt_lang)'
ForwardKeepsAll(langs, direction) == FALSE
ForwardSkips(langs, direction) ==
    index(langs, direction[1]) > index(langs, direction[2])
BackwardSkips(langs, direction) ==
    index(langs, direction[1]) < index(langs, direction[2])

\* data[k] = entry
Put(d, entry) == { e \in d : e.k # entry.k } \cup {entry}

PairEntry(direction, base) ==
    [k |-> PairKey(direction, base),
     src_lang |-> direction[1], tgt_lang |-> direction[2],
     src |-> Fp(base, direction[1]), tgt |-> Fp(base, direction[2])]
MonoEntry(lang, base) ==
    [k |-> MonoKey(lang, base), src_lang |-> lang, tgt_lang |-> "",
     src |-> Fp(base, lang), tgt |-> ""]

\* One side of the `if mono:' branch; `go' is FALSE after a `continue'.
MonoSide(a, st, lang, base) ==
    IF ~st.go \/ ~exists(a.files, base, lang) THEN st
    ELSE IF basename(base, lang) \in st.seen
    THEN [st EXCEPT !.go = FALSE]
    ELSE [data |-> Put(st.data, MonoEntry(lang, base)),
          seen |-> st.seen \cup {basename(base, lang)}, go |-> TRUE]

\* The body of `for base in bases' for one direction and one base.
Visit(a, st, direction, base) ==
    IF \/ a.ordered = "forward" /\ ForwardSkips(a.langs, direction)
       \/ a.ordered = "backward" /\ BackwardSkips(a.langs, direction)
    THEN st
    ELSE IF a.mono
    THEN MonoSide(a, MonoSide(a, st, direction[1], base), direction[2], base)
    ELSE IF exists(a.files, base, direction[1])
            /\ exists(a.files, base, direction[2])
    THEN IF /\ a.unique
            /\ basename(base, direction[1]) \in st.seen
            /\ basename(base, direction[2]) \in st.seen
         THEN st
         ELSE [data |-> Put(st.data, PairEntry(direction, base)),
               seen |-> st.seen \cup {basename(base, direction[1]),
                                      basename(base, direction[2])},
               go |-> TRUE]
    ELSE st

CollectIdle ==
    /\ cargs = NoCollectArgs /\ cpc = "idle" /\ bases = {} /\ dir_i = 0
    /\ todo = {} /\ data = {} /\ seen = {}

CollectInit ==
    /\ cargs \in CollectArgs
    /\ cpc = "walk" /\ bases = {} /\ dir_i = 0
    /\ todo = {} /\ data = {} /\ seen = {}

\* `for root, dirs, files in os.walk(direc)'
Walk ==
    /\ cpc = "walk"
    /\ bases' = WalkBases(cargs.files)
    /\ dir_i' = 1
    /\ cpc' = "direction"
    /\ UNCHANGED <<cargs, todo, data, seen>>
    /\ UNCHANGED notCollect

\* `for direction in directions: if skip and ... in skip: continue'
NextDirection ==
    /\ cpc = "direction" /\ dir_i <= Len(permutations(cargs.langs))
    /\ IF \/ DirectionName(permutations(cargs.langs)[dir_i]) \in cargs.skip
          \/ bases = {}
       THEN dir_i' = dir_i + 1 /\ UNCHANGED <<cpc, todo>>
       ELSE todo' = bases /\ cpc' = "bases" /\ UNCHANGED dir_i
    /\ UNCHANGED <<cargs, bases, data, seen>>
    /\ UNCHANGED notCollect

\* `for base in bases': a set, visited in any order.
VisitBase ==
    /\ cpc = "bases"
    /\ \E base \in todo :
          LET st == Visit(cargs, [data |-> data, seen |-> seen, go |-> TRUE],
                          permutations(cargs.langs)[dir_i], base)
          IN  /\ data' = st.data /\ seen' = st.seen
              /\ todo' = todo \ {base}
              /\ IF todo = {base}
                 THEN dir_i' = dir_i + 1 /\ cpc' = "direction"
                 ELSE UNCHANGED <<dir_i, cpc>>
    /\ UNCHANGED <<cargs, bases>>
    /\ UNCHANGED notCollect

\* `return data'
CollectReturn ==
    /\ cpc = "direction" /\ dir_i > Len(permutations(cargs.langs))
    /\ cpc' = "returned"
    /\ UNCHANGED <<cargs, bases, dir_i, todo, data, seen>>
    /\ UNCHANGED notCollect

CollectNext == Walk \/ NextDirection \/ VisitBase \/ CollectReturn

(***************************************************************************)
(* parse_configs and update_dict_recursively of utils.py, with no outdir.  *)
(* A YAML value is a scalar or a mapping from keys to values.              *)
(***************************************************************************)
ConfigKeys == {"data", "args"}
Scalar(x) == [kind |-> "scalar", val |-> x]
Mapping(items) == [kind |-> "mapping", items |-> items]
TypeError == [kind |-> "TypeError"]

MappingsTo(values) ==
    { Mapping(f) : f \in UNION { [K -> values] : K \in SUBSET ConfigKeys } }

\* The values of the files: scalars, mappings of scalars, and mappings of
\* these.
Scalars == {Scalar("v1"), Scalar("v2")}
Inner == Scalars \cup MappingsTo(Scalars)
Loaded == MappingsTo(Inner)

\* The files on the command line, in order.
ConfigNames == <<"base.yml", "override.yml">>

\* d.get(k, {})
get(d, k) == IF k \in DOMAIN d.items THEN d.items[k] ELSE Mapping(<<>>)

\* update_dict_recursively(d, u) for a mapping u: d updated, or TypeError
\* when an item is assigned into a d that is no mapping.
RECURSIVE update_dict_recursively(_, _)
update_dict_recursively(d, u) ==
    IF DOMAIN u.items = {} THEN d
    ELSE IF d.kind # "mapping" THEN TypeError
    ELSE LET new == [k \in DOMAIN u.items |->
                        IF u.items[k].kind = "mapping"
                        THEN update_dict_recursively(get(d, k), u.items[k])
                        ELSE u.items[k]]
         IN  IF \E k \in DOMAIN new : new[k] = TypeError
             THEN TypeError
             ELSE Mapping([k \in DOMAIN d.items \cup DOMAIN new |->
                              IF k \in DOMAIN new THEN new[k]
                              ELSE d.items[k]])

ParseIdle ==
    /\ configs = <<>> /\ ppc = "idle" /\ merged = 0
    /\ pconfig = Mapping(<<>>)

ParseInit ==
    /\ configs \in [DOMAIN ConfigNames -> Loaded]
    /\ ppc = "merge" /\ merged = 0
    /\ pconfig = Mapping(<<>>)

\* One round of `for config in configs'.
MergeConfig ==
    /\ ppc = "merge" /\ merged < Len(configs)
    /\ LET r == update_dict_recursively(pconfig, configs[merged + 1])
       IN  IF r = TypeError
           THEN ppc' = "TypeError" /\ UNCHANGED pconfig
           ELSE pconfig' = r /\ UNCHANGED ppc
    /\ merged' = merged + 1
    /\ UNCHANGED configs
    /\ UNCHANGED notParse

\* All files merged: pconfig is what is validated and returned.
ParseReturn ==
    /\ ppc = "merge" /\ merged = Len(configs)
    /\ ppc' = "done"
    /\ UNCHANGED <<configs, merged, pconfig>>
    /\ UNCHANGED notParse

ParseNext == MergeConfig \/ ParseReturn

(***************************************************************************)
(* c_length and the length rule of wrong_tu, on sentences told apart by    *)
(* their lengths in characters and bytes only: all alphabetic, no blanks,  *)
(* nothing a regex finds.                                                  *)
(***************************************************************************)
\* Lengths for the ratios 2.01 (201 and 100) and 2.0 (200 and 100).
LongerLens == {100, 200, 201}

LengthFeatures ==
    { [len |-> n, bytes |-> n + w, blanks |-> 0, alpha |-> n] :
        n \in 0..MaxCharLen \cup LongerLens, w \in 0..MaxWide }

LengthInputs ==
    { f \in LengthFeatures : f.bytes - f.len <= f.len }

LengthIdle == ltu = NoTu /\ accepted = "idle" /\ rejected = "idle"

LengthInit ==
    /\ \E lf \in LengthInputs, rf \in LengthInputs, a \in Args :
          ltu = MkTu(lf, rf, Forced(lf, rf), a)
    /\ accepted = "pending" /\ rejected = "pending"

\* c_length(left, right) called on the pair.
ApplyCLength ==
    /\ accepted = "pending"
    /\ accepted' = IF c_length_raises(ltu.left, ltu.right)
                   THEN ZeroDivisionError
                   ELSE IF c_length(ltu.left, ltu.right) THEN "True"
                   ELSE "False"
    /\ UNCHANGED <<ltu, rejected>>
    /\ UNCHANGED notLength

\* wrong_tu(left, right, args) called on the pair.
ApplyLengthRule ==
    /\ rejected = "pending"
    /\ rejected' = wrong_tu(ltu.left, ltu.right, ltu.pair, ltu.args)
    /\ UNCHANGED <<ltu, accepted>>
    /\ UNCHANGED notLength

LengthNext == ApplyCLength \/ ApplyLengthRule


(***************************************************************************)
(* bifixer.py: fix_sentences.  A sentence is a sequence of characters of   *)
(* BifixChars: a lower-case and an upper-case letter, an accented letter,  *)
(* a punctuation mark, a digit and the blank.  The languages are ones      *)
(* without a replacements file (orthofix returns its text) and other than  *)
(* "fr", so that the blank before a comma is a punctuation replacement.    *)
(* No sentence is longer than 5000 characters; --ignore_empty,             *)
(* --ignore_orthography and --ignore_duplicates are unset.  The 64-bit     *)
(* digest is taken for collision-free on these short texts: xxh64 of a     *)
(* text is the text, tagged.  The ranking column is left out.              *)
(***************************************************************************)
LowerE == "e"
UpperE == "E"
AccentedE == "e-acute"
Comma == ","
Digit == "1"
Tab == "\t"
BifixChars == {LowerE, UpperE, AccentedE, Comma, Digit, Blank}
BifixTexts == SeqsUpTo(BifixChars, MaxTextLen)
BifixTargets == {<<LowerE>>, <<UpperE>>}
\* Two lines of input; the first has the lower-case letter for its target.
BifixArgs ==
    { [input |-> <<[source |-> s1, target |-> <<LowerE>>],
                   [source |-> s2, target |-> t2]>>,
       aggressive_dedup |-> a, ignore_characters |-> FALSE,
       ignore_empty |-> FALSE, dedup |-> TRUE] :
        s1 \in BifixTexts, s2 \in BifixTexts, t2 \in BifixTargets,
        a \in BOOLEAN }


\* re.sub(' +', ' ', text)
RECURSIVE collapse_spaces(_)
collapse_spaces(text) ==
    IF Len(text) < 2 THEN text
    ELSE IF text[1] = Blank /\ text[2] = Blank THEN collapse_spaces(Tail(text))
    ELSE <<Head(text)>> \o collapse_spaces(Tail(text))

\* punct_pattern.sub(...) with getNormalizedPunctReplacements: of the
\* replacements, " ," -> "," is the one that these characters can spell.
RECURSIVE punct_sub(_)
punct_sub(text) ==
    IF Len(text) < 2 THEN text
    ELSE IF text[1] = Blank /\ text[2] = Comma
         THEN <<Comma>> \o punct_sub(Tail(Tail(text)))
    ELSE <<Head(text)>> \o punct_sub(Tail(text))

\* restorative_cleaning.fix
fix(text) == strip(punct_sub(strip(collapse_spaces(strip(text)))))

\* str.lower
lower(text) == [p \in DOMAIN text |-> IF text[p] = UpperE THEN LowerE ELSE text[p]]
\* .replace(" ", "")
IsNotBlank(ch) == ch # Blank
remove_spaces(text) == SelectSeq(text, IsNotBlank)
\* .translate(str.maketrans('', '', string.punctuation + string.digits))
IsKept(ch) == ch \notin {Comma, Digit}
translate(text) == SelectSeq(text, IsKept)
\* unidecode.unidecode
unidecode(text) ==
    [p \in DOMAIN text |-> IF text[p] = AccentedE THEN LowerE ELSE text[p]]

normalized_keeps_case(text) == unidecode(translate(remove_spaces(text)))
normalized(text) == unidecode(translate(remove_spaces(lower(text))))

xxh64(text) == <<"xxh64", text>>

segment_hash(args, source_segment, target_segment) ==
    IF args.aggressive_dedup
    THEN xxh64(normalized(source_segment) \o <<Tab>> \o normalized(target_segment))
    ELSE xxh64(source_segment \o <<Tab>> \o target_segment)

fixed(args, sentence) ==
    IF ~args.ignore_characters THEN fix(sentence) ELSE strip(sentence)

BifixIdle ==
    /\ bargs = None /\ bpc = "idle" /\ ilines = 0 /\ boutput = <<>>

BifixInit ==
    /\ bargs \in BifixArgs
    /\ bpc = "loop"
    /\ ilines = 0
    /\ boutput = <<>>

\* One turn of `for i in args.input'.
FixLine ==
    /\ bpc = "loop"
    /\ ilines < Len(bargs.input)
    /\ ilines' = ilines + 1
    /\ LET parts == bargs.input[ilines + 1]
           source_segment == fixed(bargs, parts.source)
           target_segment == fixed(bargs, parts.target)
       IN  boutput' =
             IF /\ bargs.ignore_empty \/ (parts.source # <<>> /\ parts.target # <<>>)
                /\ bargs.ignore_empty
                     \/ (source_segment # <<>> /\ target_segment # <<>>)
             THEN Append(boutput,
                         [line |-> ilines + 1,
                          source |-> source_segment,
                          target |-> target_segment,
                          hash |-> segment_hash(bargs, source_segment,
                                                target_segment)])
             ELSE boutput
    /\ UNCHANGED <<bargs, bpc>>
    /\ UNCHANGED notBifix

BifixReturn ==
    /\ bpc = "loop"
    /\ ilines = Len(bargs.input)
    /\ bpc' = "returned"
    /\ UNCHANGED <<bargs, ilines, boutput>>
    /\ UNCHANGED notBifix

BifixNext == FixLine \/ BifixReturn


(***************************************************************************)
(* utils.py: setup_logger.  The state of the logging module is `loggers':  *)
(* logging.getLogger(name) gives the one logger of that name, which has    *)
(* no handler and no level before the first call.  A handler is known by   *)
(* its class, its level and where it writes.                               *)
(***************************************************************************)
LoggerNames == {"scripts", "shard_data"}
LogFolders == {None, "logs"}
Levels == {"DEBUG", "INFO"}

SetupCalls ==
    [name : LoggerNames, folder : LogFolders, level : Levels, to_stdout : BOOLEAN]
NoSetupCall ==
    [name |-> None, folder |-> None, level |-> None, to_stdout |-> FALSE]

\* os.path.join(folder, name + '.log'), folder = os.getcwd() for None
LogPath(call) ==
    <<IF call.folder = None THEN "cwd" ELSE call.folder, call.name, ".log">>

FileHandler(fp) == [class |-> "FileHandler", level |-> "DEBUG", to |-> fp]
StreamHandler(stream) == [class |-> "StreamHandler", level |-> "INFO", to |-> stream]

\* `if not logger.handlers' and, with duplicates, without the test
AddsAlways(handlers) == TRUE
NoHandlers(handlers) == handlers = <<>>

addHandlers(handlers, call) ==
    IF NoHandlers(handlers)
    THEN <<FileHandler(LogPath(call))>>
         \o (IF call.to_stdout THEN <<StreamHandler("sys.stdout")>> ELSE <<>>)
    ELSE <<>>

LoggerIdle ==
    /\ loggers = <<>> /\ lcall = None /\ lcalls = 0

LoggerInit ==
    /\ loggers = [name \in LoggerNames |-> [level |-> "NOTSET", handlers |-> <<>>]]
    /\ lcall = NoSetupCall
    /\ lcalls = 0

setup_logger(call) ==
    /\ lcalls < MaxSetupCalls
    /\ lcalls' = lcalls + 1
    /\ lcall' = call
    /\ loggers' =
         [loggers EXCEPT ![call.name] =
            [level |-> call.level,
             handlers |-> @.handlers \o addHandlers(@.handlers, call)]]
    /\ UNCHANGED notLogger

LoggerNext == \E call \in SetupCalls : setup_logger(call)


(***************************************************************************)
(* resample_parallel.py: sinkhorn_temperature_sampling.  The matrix A is a *)
(* sequence of rows of counts; `axis' follows it through np.delete and     *)
(* names the language of each row and column that A still has.  What       *)
(* Sinkhorn-Knopp and the temperature make of a cell is not computed: the  *)
(* probability of the cell (src, tgt) is the value Prob(src, tgt), and a   *)
(* cell without data has the probability zero.                             *)
(***************************************************************************)
AllLangs == <<"de", "en", "es", "fr">>
SkNames == <<"de2en", "de2fr", "en2es", "en2fr", "es2fr", "fr2de", "fr2en">>
SrcLangOf(name) ==
    CASE name = "de2en" -> "de" [] name = "de2fr" -> "de"
      [] name = "en2es" -> "en" [] name = "en2fr" -> "en"
      [] name = "es2fr" -> "es" [] name = "fr2de" -> "fr"
      [] name = "fr2en" -> "fr"
TgtLangOf(name) ==
    CASE name = "de2en" -> "en" [] name = "de2fr" -> "fr"
      [] name = "en2es" -> "es" [] name = "en2fr" -> "fr"
      [] name = "es2fr" -> "fr" [] name = "fr2de" -> "de"
      [] name = "fr2en" -> "en"

\* The datasets of pconfig['data'] as main hands them on: some of SkNames,
\* in order, each with the length of its source file.
RECURSIVE Metadata(_, _, _)
Metadata(present, sizes, k) ==
    IF k > Len(SkNames) THEN <<>>
    ELSE (IF SkNames[k] \in present
          THEN <<[name |-> SkNames[k], src_lang |-> SrcLangOf(SkNames[k]),
                  tgt_lang |-> TgtLangOf(SkNames[k]),
                  size |-> sizes[SkNames[k]]]>>
          ELSE <<>>)
         \o Metadata(present, sizes, k + 1)

SkArgs ==
    { Metadata(present, sizes, 1) :
        present \in SUBSET Range(SkNames) \ {{}},
        sizes \in [Range(SkNames) -> 0..MaxSkSize] }

\* main: langs, the languages of the datasets
LangsOf(metas) ==
    { metas[k].src_lang : k \in DOMAIN metas }
    \cup { metas[k].tgt_lang : k \in DOMAIN metas }

\* sorted(langs)
RECURSIVE SortedFrom(_, _)
SortedFrom(S, k) ==
    IF k > Len(AllLangs) THEN <<>>
    ELSE (IF AllLangs[k] \in S THEN <<AllLangs[k]>> ELSE <<>>)
         \o SortedFrom(S, k + 1)
sorted_langs_of(S) == SortedFrom(S, 1)

RECURSIVE SizeSum(_, _, _, _)
SizeSum(metas, src, tgt, k) ==
    IF k > Len(metas) THEN 0
    ELSE (IF metas[k].src_lang = src /\ metas[k].tgt_lang = tgt
          THEN metas[k].size ELSE 0)
         + SizeSum(metas, src, tgt, k + 1)

\* A[src_idx, tgt_idx] += size, for every dataset
FilledMatrix(metas, list) ==
    [i \in DOMAIN list |->
        [j \in DOMAIN list |-> SizeSum(metas, list[i], list[j], 1)]]

\* np.delete(arr, idxs, 0) of a sequence, the places counted from 0
RECURSIVE DeleteFrom(_, _, _)
DeleteFrom(seq, idxs, k) ==
    IF k > Len(seq) THEN <<>>
    ELSE (IF (k - 1) \in idxs THEN <<>> ELSE <<seq[k]>>)
         \o DeleteFrom(seq, idxs, k + 1)
np_delete(M, idxs, ax) ==
    IF ax = 0 THEN DeleteFrom(M, idxs, 1)
    ELSE [i \in DOMAIN M |-> DeleteFrom(M[i], idxs, 1)]

\* np.where(~M.any(axis=0))[0]: the columns without a count;
\* np.where(~M.any(axis=1))[0]: the rows without a count.
np_where_not_any(M, ax) ==
    IF ax = 0
    THEN { j - 1 : j \in { j \in DOMAIN M : \A i \in DOMAIN M : M[i][j] = 0 } }
    ELSE { i - 1 : i \in { i \in DOMAIN M : \A j \in DOMAIN M : M[i][j] = 0 } }
np_any(M) == \E i \in DOMAIN M : \E j \in DOMAIN M[i] : M[i][j] # 0

\* The places of idxs in rising order.
RECURSIVE Rising(_)
Rising(idxs) ==
    IF idxs = {} THEN <<>>
    ELSE LET least == CHOOSE x \in idxs : \A y \in idxs : x <= y
         IN  <<least>> \o Rising(idxs \ {least})

\* [slangs.remove(sorted_langs[i]) for i in idxs]; ValueError when the
\* language is not in the list any more.
ValueError == <<"ValueError">>
RECURSIVE remove_each(_, _, _)
remove_each(list, sorted_langs, idxs) ==
    IF idxs = <<>> \/ list = ValueError THEN list
    ELSE LET x == sorted_langs[Head(idxs) + 1]
         IN  IF x \notin Range(list) THEN ValueError
             ELSE remove_each(SelectSeq(list, LAMBDA y : y # x), sorted_langs,
                              Tail(idxs))
ZeroProb == <<"0">>
Prob(src, tgt) == <<"prob", src, tgt>>

SinkhornIdle ==
    /\ metadata = <<>> /\ skpc = "idle" /\ A = <<>> /\ slangs = <<>>
    /\ axis = <<>> /\ probs = <<>> /\ updated_metadata = <<>>

SinkhornInit ==
    /\ metadata \in SkArgs
    /\ skpc = "fill"
    /\ A = <<>> /\ slangs = <<>> /\ axis = <<>> /\ probs = <<>>
    /\ updated_metadata = <<>>

\* sinkhorn_temperature_sampling_distribution: the matrix of counts.
FillMatrix ==
    /\ skpc = "fill"
    /\ slangs' = sorted_langs_of(LangsOf(metadata))
    /\ axis' = slangs'
    /\ A' = FilledMatrix(metadata, slangs')
    /\ skpc' = "prune"
    /\ UNCHANGED <<metadata, probs, updated_metadata>>
    /\ UNCHANGED notSinkhorn

\* The two prunings, `if not A.any()', and the languages taken off slangs.
PruneMatrix ==
    /\ skpc = "prune"
    /\ LET sorted_langs == slangs
           zero_rows == np_where_not_any(A, 0)
           A1 == np_delete(np_delete(A, zero_rows, 0), zero_rows, 1)
           zero_cols == np_where_not_any(A1, 1)
           A2 == np_delete(np_delete(A1, zero_cols, 0), zero_cols, 1)
           left == remove_each(remove_each(slangs, sorted_langs,
                                           Rising(zero_cols)),
                               sorted_langs, Rising(zero_rows))
       IN  /\ A' = A2
           /\ axis' = DeleteFrom(DeleteFrom(axis, zero_rows, 1), zero_cols, 1)
           /\ IF ~np_any(A2)
              THEN skpc' = "AttributeError" /\ UNCHANGED slangs
              ELSE IF left = ValueError
              THEN skpc' = "ValueError" /\ UNCHANGED slangs
              ELSE skpc' = "fit" /\ slangs' = left
    /\ UNCHANGED <<metadata, probs, updated_metadata>>
    /\ UNCHANGED notSinkhorn

\* sk.fit(A), the temperature, and the return of probs and slangs.
FitMatrix ==
    /\ skpc = "fit"
    /\ probs' = [i \in DOMAIN A |->
                    [j \in DOMAIN A |->
                        IF A[i][j] > 0 THEN Prob(axis[i], axis[j])
                        ELSE ZeroProb]]
    /\ skpc' = "assign"
    /\ UNCHANGED <<metadata, A, slangs, axis, updated_metadata>>
    /\ UNCHANGED notSinkhorn

\* sinkhorn_temperature_sampling: one turn of `for meta in metadata'.
AssignProb ==
    /\ skpc = "assign"
    /\ Len(updated_metadata) < Len(metadata)
    /\ LET meta == metadata[Len(updated_metadata) + 1]
           prob == IF \/ meta.src_lang \notin Range(slangs)
                      \/ meta.tgt_lang \notin Range(slangs)
                   THEN ZeroProb
                   ELSE probs[index(slangs, meta.src_lang)]
                             [index(slangs, meta.tgt_lang)]
       IN  updated_metadata' =
             Append(updated_metadata, [name |-> meta.name, prob |-> prob])
    /\ UNCHANGED <<metadata, skpc, A, slangs, axis, probs>>
    /\ UNCHANGED notSinkhorn

SinkhornReturn ==
    /\ skpc = "assign"
    /\ Len(updated_metadata) = Len(metadata)
    /\ skpc' = "returned"
    /\ UNCHANGED <<metadata, A, slangs, axis, probs, updated_metadata>>
    /\ UNCHANGED notSinkhorn

SinkhornNext ==
    FillMatrix \/ PruneMatrix \/ FitMatrix \/ AssignProb \/ SinkhornReturn


(***************************************************************************)
(* clean.py: _tagprotect, for one line.  re.findall gives the matches in   *)
(* order; of the three groups of a match one is not empty, and a match is  *)
(* known by that group and its place (no two extractions are the same      *)
(* text).  The line is known by what stands at the place of each match:    *)
(* the extraction or the placeholder put for it.  The id of a placeholder  *)
(* is <<c>> for the number c and <<>> for the bare placeholder.            *)
(***************************************************************************)
Groups == 0..2
ProtectArgs ==
    [max_id : 1..MaxId,
     matches : UNION { [1..n -> Groups] : n \in 0..MaxMatches }]
NoProtectArgs == [max_id |-> 1, matches |-> <<>>]

Bare == <<>>
\* random.randrange(0, max_id)
randrange(max_id) == 0..(max_id - 1)
\* `elif i > max_id'
Maxed(i, max_id) == i > max_id

\* The values c can take for match i (from 0) of the line.
Ids(matches, i, max_id) ==
    IF Len(matches) = 1 THEN { <<x>> : x \in randrange(max_id) }
    ELSE IF Maxed(i, max_id) THEN {Bare}
    ELSE {<<i>>}

Extraction(matches, i) == [group |-> matches[i + 1], at |-> i]
\* templates[j].format(c)
Placeholder(j, id) == [templ |-> j, id |-> id]

ProtectIdle ==
    /\ tpargs = NoProtectArgs /\ tppc = "idle" /\ tpi = 0
    /\ tpline = <<>> /\ repls = <<>>

ProtectInit ==
    /\ tpargs \in ProtectArgs
    /\ tppc = "matches" /\ tpi = 0
    /\ tpline = [k \in DOMAIN tpargs.matches |-> Extraction(tpargs.matches, k - 1)]
    /\ repls = <<>>

\* One turn of `for i, match in enumerate(matches)': the id, then the
\* extraction is replaced unless the dropout leaves it.
ProtectMatch ==
    /\ tppc = "matches" /\ tpi < Len(tpargs.matches)
    /\ \E id \in Ids(tpargs.matches, tpi, tpargs.max_id) :
       \E replaced \in BOOLEAN :
          LET extraction == Extraction(tpargs.matches, tpi)
              repl == Placeholder(extraction.group, id)
          IN  IF replaced
              THEN /\ tpline' = [tpline EXCEPT ![tpi + 1] = repl]
                   /\ repls' = Append(repls, <<repl, extraction>>)
              ELSE UNCHANGED <<tpline, repls>>
    /\ tpi' = tpi + 1
    /\ UNCHANGED <<tpargs, tppc>>
    /\ UNCHANGED notProtect

\* The loop over the matches left: repls and the line are written.
ProtectWrite ==
    /\ tppc = "matches" /\ tpi = Len(tpargs.matches)
    /\ tppc' = "written"
    /\ UNCHANGED <<tpargs, tpi, tpline, repls>>
    /\ UNCHANGED notProtect

ProtectNext == ProtectMatch \/ ProtectWrite


(***************************************************************************)
(* clean.py: a stage step by step, and what is left when the run is        *)
(* stopped between two steps.  A file that a shell command or a subprocess *)
(* writes is there from the moment its output is opened and is "partial"   *)
(* until the command has ended; shutil.move inside the output directory    *)
(* is a rename.  The steps are those of a run that does not skip.          *)
(***************************************************************************)
Opens(path) == [op |-> "open", path |-> path, to |-> path]
Ends(path) == [op |-> "end", path |-> path, to |-> path]
Rm(path) == [op |-> "remove", path |-> path, to |-> path]
Mv(path, to) == [op |-> "move", path |-> path, to |-> to]
Writes(path) == <<Opens(path), Ends(path)>>

Program(stage) ==
    CASE stage = "charfix" ->
            Writes(Path("src", ".charfix")) \o Writes(Path("tgt", ".charfix"))
      [] stage = "bifix" ->
            Writes(Path("src", ".tsv")) \o Writes(Path("src", ".tsv.bifixed.out"))
            \o Writes(Path("src", ".bifixed")) \o Writes(Path("tgt", ".bifixed"))
            \o <<Rm(Path("src", ".tsv")), Rm(Path("src", ".tsv.bifixed.out"))>>
      [] stage = "biclean" ->
            Writes(Path("src", ".tsv")) \o Writes(Path("src", ".tsv.annotated"))
            \o Writes(Path("src", ".tsv.bicleaned"))
            \o Writes(Path("src", ".bicleaned")) \o Writes(Path("tgt", ".bicleaned"))
            \o <<Rm(Path("src", ".tsv")), Rm(Path("src", ".tsv.annotated"))>>
      [] stage = "langcheck" ->
            Writes(Path("src", ".langfilter.0")) \o Writes(Path("src", ".langfilter.1"))
            \o Writes(Path("src", ".langfilter.2"))
            \o <<Mv(Path("src", ".langfilter.0"), Path("src", ".langfilter")),
                 Mv(Path("src", ".langfilter.1"), Path("tgt", ".langfilter")),
                 Mv(Path("src", ".langfilter.2"), Path("src", ".langids"))>>
      [] stage = "tagprotect" ->
            Writes(Path("src", ".tagprotect.0")) \o Writes(Path("src", ".tagprotect.1"))
            \o Writes(Path("tgt", ".tagprotect.0")) \o Writes(Path("tgt", ".tagprotect.1"))
            \o <<Mv(Path("src", ".tagprotect.0"), Path("src", ".tagprotect")),
                 Mv(Path("tgt", ".tagprotect.0"), Path("tgt", ".tagprotect")),
                 Mv(Path("src", ".tagprotect.1"), Path("src", ".tagprotect_repls")),
                 Mv(Path("tgt", ".tagprotect.1"), Path("tgt", ".tagprotect_repls"))>>
      [] stage = "dedup" ->
            Writes(Path("src", ".tsv")) \o Writes(Path("src", ".tsv.dedup"))
            \o Writes(Path("src", ".dedup")) \o Writes(Path("tgt", ".dedup"))
            \o <<Rm(Path("src", ".tsv")), Rm(Path("src", ".tsv.dedup"))>>

\* files after one step.
Do(step, files) ==
    CASE step.op = "open" ->
            [f \in DOMAIN files \cup {step.path} |->
                IF f = step.path THEN "partial" ELSE files[f]]
      [] step.op = "end" -> [files EXCEPT ![step.path] = "whole"]
      [] step.op = "remove" -> [f \in DOMAIN files \ {step.path} |-> files[f]]
      [] step.op = "move" ->
            [f \in (DOMAIN files \ {step.path}) \cup {step.to} |->
                IF f = step.to THEN files[step.path] ELSE files[f]]

StepsIdle ==
    /\ sstage = "none" /\ sstatus = "idle" /\ spc = 0 /\ sfiles = <<>>
    /\ runs = 0 /\ completed = 0

\* The first call of the stage, with its two input files and nothing else.
StepsInit ==
    /\ sstage \in Stages
    /\ sstatus = "running" /\ spc = 0
    /\ sfiles = [f \in Inputs |-> "whole"]
    /\ runs = 1 /\ completed = 0

\* The next step of the run.
StepRun ==
    /\ sstatus = "running" /\ spc < Len(Program(sstage))
    /\ sfiles' = Do(Program(sstage)[spc + 1], sfiles)
    /\ spc' = spc + 1
    /\ UNCHANGED <<sstage, sstatus, runs, completed>>
    /\ UNCHANGED notSteps

\* The run is stopped (killed, the machine goes down) before its next step.
Interrupt ==
    /\ sstatus = "running" /\ spc < Len(Program(sstage))
    /\ sstatus' = "interrupted"
    /\ UNCHANGED <<sstage, spc, sfiles, runs, completed>>
    /\ UNCHANGED notSteps

\* The run returns its outputs after its last step.
StageReturn ==
    /\ sstatus = "running" /\ spc = Len(Program(sstage))
    /\ sstatus' = "returned"
    /\ completed' = completed + 1
    /\ UNCHANGED <<sstage, spc, sfiles, runs>>
    /\ UNCHANGED notSteps

\* A later call of the same stage: `if os.path.exists(src_outfp) and ...'
\* it returns the outputs at once, else it runs.
Reinvoke ==
    /\ sstatus \in {"interrupted", "returned"} /\ runs < MaxRuns
    /\ runs' = runs + 1
    /\ IF Skip(sstage, sfiles)
       THEN sstatus' = "skipped" /\ UNCHANGED spc
       ELSE sstatus' = "running" /\ spc' = 0
    /\ UNCHANGED <<sstage, sfiles, completed>>
    /\ UNCHANGED notSteps

\* A call after one that skipped.
ReinvokeSkipped ==
    /\ sstatus = "skipped" /\ runs < MaxRuns
    /\ runs' = runs + 1
    /\ UNCHANGED <<sstage, sstatus, spc, sfiles, completed>>
    /\ UNCHANGED notSteps

StepsNext == StepRun \/ Interrupt \/ StageReturn \/ Reinvoke \/ ReinvokeSkipped

(***************************************************************************)
(* Specifications.                                                         *)
(***************************************************************************)
\* Every part but one is idle.
Idle(part) ==
    /\ IF part = "Tu" THEN TRUE ELSE TuIdle
    /\ IF part = "Hard" THEN TRUE ELSE HardIdle
    /\ IF part = "Mux" THEN TRUE ELSE MuxIdle
    /\ IF part = "Pll" THEN TRUE ELSE PllIdle
    /\ IF part = "Tags" THEN TRUE ELSE TagsIdle
    /\ IF part = "Shard" THEN TRUE ELSE ShardIdle
    /\ IF part = "Clean" THEN TRUE ELSE CleanIdle
    /\ IF part = "Resample" THEN TRUE ELSE ResampleIdle
    /\ IF part = "Collect" THEN TRUE ELSE CollectIdle
    /\ IF part = "Parse" THEN TRUE ELSE ParseIdle
    /\ IF part = "Length" THEN TRUE ELSE LengthIdle
    /\ IF part = "Bifix" THEN TRUE ELSE BifixIdle
    /\ IF part = "Logger" THEN TRUE ELSE LoggerIdle
    /\ IF part = "Sinkhorn" THEN TRUE ELSE SinkhornIdle
    /\ IF part = "Protect" THEN TRUE ELSE ProtectIdle
    /\ IF part = "Steps" THEN TRUE ELSE StepsIdle

InitTu == TuInit /\ Idle("Tu")
SpecTu == InitTu /\ [][ApplyWrongTu]_vars

InitHard == HardInit /\ Idle("Hard")
SpecHard == InitHard /\ [][HardNext]_vars

InitMux == MuxInit /\ Idle("Mux")
SpecMux == InitMux /\ [][MuxNext]_vars

InitPll == PllInit /\ Idle("Pll")
SpecPll == InitPll /\ [][PllNext]_vars

InitTags == TagsInit /\ Idle("Tags")
SpecTags == InitTags /\ [][TagsNext]_vars

InitShard == ShardInit /\ Idle("Shard")
SpecShard == InitShard /\ [][ShardNext]_vars

InitClean == CleanInit /\ Idle("Clean")
SpecClean == InitClean /\ [][CleanNext]_vars

InitResample == ResampleInit /\ Idle("Resample")
SpecResample == InitResample /\ [][ResampleNext]_vars
\* The loop of main is sequential code: whenever it can go on, it does.
SpecResampleFair == SpecResample /\ WF_vars(ResampleNext)

InitCollect == CollectInit /\ Idle("Collect")
SpecCollect == InitCollect /\ [][CollectNext]_vars

InitParse == ParseInit /\ Idle("Parse")
SpecParse == InitParse /\ [][ParseNext]_vars

InitLength == LengthInit /\ Idle("Length")
SpecLength == InitLength /\ [][LengthNext]_vars

InitBifix == BifixInit /\ Idle("Bifix")
SpecBifix == InitBifix /\ [][BifixNext]_vars

InitLogger == LoggerInit /\ Idle("Logger")
SpecLogger == InitLogger /\ [][LoggerNext]_vars

InitSinkhorn == SinkhornInit /\ Idle("Sinkhorn")
SpecSinkhorn == InitSinkhorn /\ [][SinkhornNext]_vars

InitProtect == ProtectInit /\ Idle("Protect")
SpecProtect == InitProtect /\ [][ProtectNext]_vars

InitSteps == StepsInit /\ Idle("Steps")
SpecSteps == InitSteps /\ [][StepsNext]_vars

(***************************************************************************)
(* The rule battery as the specification lists it: the rules in order,     *)
(* each with whether args switch it on and what its check does on the      *)
(* pair ("pass", "fail", or "raise" when the check divides by zero).       *)
(***************************************************************************)
Verdict(ok) == IF ok THEN "pass" ELSE "fail"
Rule(name, on, does) == [name |-> name, on |-> on, does |-> does]

Battery(left, right, pair, args) ==
    LET langs == ~args.disable_lang_ident
        src == args.source_lang \in safe_noise_detection_langs
        tgt == args.target_lang \in safe_noise_detection_langs
    IN
    << Rule("len(left) >= 1024", TRUE, Verdict(left.len < LongLen)),
       Rule("len(right) >= 1024", TRUE, Verdict(right.len < LongLen)),
       Rule("c_no_literals(['Re:'], left)", TRUE, Verdict(c_no_literals_Re(left))),
       Rule("c_no_literals(['Re:'], right)", TRUE, Verdict(c_no_literals_Re(right))),
       Rule("c_minimal_length(left) and c_minimal_length(right)",
            ~args.disable_minimal_length,
            Verdict(c_minimal_length(left) \/ c_minimal_length(right))),
       Rule("c_length or c_length_bytes", TRUE,
            IF c_length_raises(left, right) THEN "raise"
            ELSE Verdict(c_length(left, right) \/ c_length_bytes(left, right))),
       Rule("c_identical", TRUE, Verdict(c_identical(pair))),
       Rule("c_identical_wo_digits", TRUE, Verdict(c_identical_wo_digits(pair))),
       Rule("c_identical_wo_punct", TRUE, Verdict(c_identical_wo_punct(pair))),
       Rule("c_different_language", langs, Verdict(c_different_language(pair))),
       Rule("c_majority_alpha(left)", TRUE,
            IF c_majority_alpha_raises(left) THEN "raise"
            ELSE Verdict(c_majority_alpha(left))),
       Rule("c_majority_alpha(right)", TRUE,
            IF c_majority_alpha_raises(right) THEN "raise"
            ELSE Verdict(c_majority_alpha(right))),
       Rule("c_no_urls(left)", TRUE, Verdict(c_no_urls(left))),
       Rule("c_no_urls(right)", TRUE, Verdict(c_no_urls(right))),
       Rule("c_no_breadcrumbs1(left)", TRUE, Verdict(c_no_breadcrumbs1(left))),
       Rule("c_no_breadcrumbs1(right)", TRUE, Verdict(c_no_breadcrumbs1(right))),
       Rule("c_no_breadcrumbs2(left)", TRUE, Verdict(c_no_breadcrumbs2(left))),
       Rule("c_no_breadcrumbs2(right)", TRUE, Verdict(c_no_breadcrumbs2(right))),
       Rule("c_no_glued_words(left)", TRUE, Verdict(c_no_glued_words(left))),
       Rule("c_no_glued_words(right)", TRUE, Verdict(c_no_glued_words(right))),
       Rule("args.source_lang in safe_noise_detection_langs and not c_no_noise(left)",
            src, Verdict(c_no_noise(left))),
       Rule("args.target_lang in safe_noise_detection_langs and not c_no_noise(right)",
            tgt, Verdict(c_no_noise(right))),
       Rule("c_no_space_noise(left)", TRUE, Verdict(c_no_space_noise(left))),
       Rule("c_no_space_noise(right)", TRUE, Verdict(c_no_space_noise(right))),
       Rule("c_no_paren(left)", TRUE, Verdict(c_no_paren(left))),
       Rule("c_no_paren(right)", TRUE, Verdict(c_no_paren(right))),
       Rule("c_unwanted(left)", TRUE, Verdict(c_unwanted(left))),
       Rule("c_unwanted(right)", TRUE, Verdict(c_unwanted(right))),
       Rule("c_inconditional(left)", TRUE, Verdict(c_inconditional(left))),
       Rule("c_inconditional(right)", TRUE, Verdict(c_inconditional(right))),
       Rule("c_no_escaped_unicode(left)", TRUE, Verdict(c_no_escaped_unicode(left))),
       Rule("c_no_escaped_unicode(right)", TRUE, Verdict(c_no_escaped_unicode(right))),
       Rule("c_no_literals([\"{{\", \"%s\", \"}}\"], left)", TRUE,
            Verdict(c_no_literals_braces(left))),
       Rule("c_no_literals([\"{{\", \"%s\", \"}}\"], right)", TRUE,
            Verdict(c_no_literals_braces(right))),
       Rule("left.istitle() and right.istitle()", TRUE,
            Verdict(~(istitle(left) /\ istitle(right)))),
       Rule("c_reliable_long_language(left, sourcelang)", langs,
            Verdict(c_reliable_long_language(left))),
       Rule("c_reliable_long_language(right, targetlang)", langs,
            Verdict(c_reliable_long_language(right))) >>

TuBattery == Battery(tu.left, tu.right, tu.pair, tu.args)

\* The rules that are switched on and do not pass, by their place.
NotPassing(B) == { i \in DOMAIN B : B[i].on /\ B[i].does # "pass" }
First(S) == CHOOSE i \in S : \A j \in S : i <= j
Failing(B) == { i \in DOMAIN B : B[i].on /\ B[i].does = "fail" }

\* C8: wrong_tu evaluates the rules in the order of the battery: when the
\* first switched-on rule that does not pass fails, wrong_tu returns that
\* rule's identifier, also when later rules fail too; it returns False
\* exactly when every switched-on rule passes; and the identifier it returns
\* is never that of a rule which disable_minimal_length or
\* disable_lang_ident switches off.
C8_FirstFailingRule ==
    tuResult # "pending" =>
        LET B == TuBattery
            N == NotPassing(B)
        IN  /\ (tuResult = "False") <=> (N = {})
            /\ (N # {} /\ B[First(N)].does = "fail") => tuResult = B[First(N)].name
            /\ \A i \in DOMAIN B : tuResult = B[i].name => B[i].on /\ i \in N

\* C8 witness: wrong_tu has returned the URL rule of the left side while a
\* later rule (the bracket rule of the right side) fails too and an earlier
\* rule (minimal length) fails but is switched off.
C8_Witness ==
    /\ tuResult = "c_no_urls(left)"
    /\ ~c_no_paren(tu.right)
    /\ tu.args.disable_minimal_length
    /\ ~(c_minimal_length(tu.left) \/ c_minimal_length(tu.right))

\* C9: wrong_tu is total: on every pair of strings and every args it
\* returns False or a rejection reason, and never raises.
C9_WrongTuTotal == tuResult # ZeroDivisionError

(***************************************************************************)
(* The hard-rule pipeline: claims.                                         *)
(***************************************************************************)
Ended(w) == wpc[w] \in {"exited", "crashed"}

\* C1: the reducer appends blocks to the final output in ascending
\* block-number order from 0 with no gaps (block k only after 0..k-1), and a
\* block that a worker has delivered before its turn is held in the heap
\* until then: a finished block not yet written is still on its way to the
\* reducer or in the heap, and no block in the heap has been written.
C1_AscendingOrder ==
    /\ written = [i \in 1..last_block |-> i - 1]
    /\ \A nb \in h : nb >= last_block
    /\ \A nb \in DOMAIN outfiles :
          \/ nb \in h
          \/ Job(nb) \in Range(output_queue)
          \/ \E w \in Workers(hargs) : wpc[w] = "put" /\ wjob[w] = nb

\* C1 witness: block 2 was delivered before block 1 and waits in the heap,
\* block 0 being written already.
C1_Witness ==
    written = <<0>> /\ 2 \in h /\ 1 \notin h /\ last_block = 1

\* C2: every block the mapper enqueues is written to the final output
\* exactly once, and when the reducer has received its sentinel and shut
\* down its heap is empty.
C2_EveryBlockWrittenOnce ==
    rpc = "done" =>
        /\ h = {}
        /\ \A i \in DOMAIN enqueued :
              enqueued[i] # Sentinel => Count(written, enqueued[i][1]) = 1

\* C3: the pipeline terminates: the mapper enqueues exactly one sentinel per
\* worker after the last block, each worker ends only by consuming exactly
\* one sentinel, the reducer's sentinel is enqueued only after every worker
\* has ended, and no process blocks forever (while the parent is not done,
\* some process can take a step).
C3_Terminates ==
    /\ \A w \in Workers(hargs) : Ended(w) => wpc[w] = "exited" /\ wsent[w] = 1
    /\ \A i \in DOMAIN enqueued :
          enqueued[i] = Sentinel =>
              /\ mainpc # "mapping"
              /\ \A j \in i..Len(enqueued) : enqueued[j] = Sentinel
    /\ Count(enqueued, Sentinel) <= process_count(hargs)
    /\ mainpc \in {"join", "reducer", "reduce.join", "done"} =>
          Count(enqueued, Sentinel) = process_count(hargs)
    /\ mainpc \in {"reduce.join", "done"} => \A w \in Workers(hargs) : Ended(w)
    /\ mainpc = "done" \/ ENABLED HardNext

(***************************************************************************)
(* mux_demux: claims.                                                      *)
(***************************************************************************)
\* What the subprocess makes of document d, as _demux stores it.
Translated(d) == [k \in 1..Len(tree[d]) |-> Line(d, k, "translated")]

\* C4: with a subprocess that emits one output line per input line, in
\* order, and whatever the interleaving of the two threads: a document holds
\* its own text until _demux stores it and from then on exactly the output
\* lines of its own lines, in order; _demux reads exactly line_count lines
\* for a token, which is the number of lines of that document; the
\* documents are stored in document order; and when mux_demux has returned
\* every document holds its own translated lines.
C4_DocsHoldOwnLines ==
    /\ \A d \in DOMAIN docs : docs[d] = tree[d] \/ docs[d] = Translated(d)
    /\ demuxpc = "read" =>
          /\ demux_count = Len(tree[demux_i])
          /\ Len(demux_sents) <= demux_count
          /\ demux_sents = SubSeq(Translated(demux_i), 1, Len(demux_sents))
    /\ \A d, e \in DOMAIN docs :
          d < e /\ docs[e] = Translated(e) => docs[d] = Translated(d)
    /\ mdpc = "returned" => \A d \in DOMAIN docs : docs[d] = Translated(d)

\* C4 witness: mux_demux has returned from two documents of two and three
\* lines.
C4_Witness ==
    /\ mdpc = "returned"
    /\ NDocs = 2 /\ Len(tree[0]) = 2 /\ Len(tree[1]) = 3
    /\ docs[0] = Translated(0) /\ docs[1] = Translated(1)

\* C5: mux_demux never deadlocks: with finite pipes and a subprocess that
\* echoes a line per line, until mux_demux has returned some thread (or the
\* subprocess) can take a step, also when one document has more lines than
\* the buffer and the pipes hold.
C5_NeverDeadlocks == mdpc = "returned" \/ ENABLED MuxNext

(***************************************************************************)
(* pll_single / pll_multi: claims.                                         *)
(***************************************************************************)
\* C6: with a function that returns its pieces unchanged, for every length
\* of at least 1 and every n_jobs of at least 1, in whatever order the jobs
\* end, every concatenated output equals its input file line for line:
\* one output for pll_single, one per parallel file for pll_multi.
C6_OutputEqualsInput ==
    pllpc = "returned" => catted = pll.parallel_files

\* C6 witness: pll_multi has returned from two files of three lines split
\* for two jobs (three pieces of one line), the last job having ended
\* before the first.
C6_Witness ==
    /\ pllpc = "returned" /\ pll.function = "pll_multi"
    /\ Len(pll.parallel_files) = 2 /\ Len(pll.parallel_files[1]) = 3
    /\ pll.n_jobs = 2 /\ Len(result) = 3 /\ calls = 3

\* C7: given a first input file of no lines, pll_single and pll_multi raise
\* PllError, nothing is split, the function is never run and no concatenated
\* output is made; and PllError is raised for nothing else.
C7_EmptyFileRaises ==
    /\ Len(pll.parallel_files) >= 1 /\ Len(pll.parallel_files[1]) = 0 =>
          /\ pllpc \in {"length", "PllError"}
          /\ temp_dir = {} /\ lists_of_splits = <<>>
          /\ calls = 0 /\ catted = <<>>
    /\ pllpc = "PllError" => Len(pll.parallel_files[1]) = 0

\* C7 witness: PllError raised for an empty file.
C7_Witness ==
    /\ pllpc = "PllError" /\ pll.function = "pll_multi"
    /\ Len(pll.parallel_files) = 2 /\ Len(pll.parallel_files[1]) = 0

(***************************************************************************)
(* extract_tags / reinsert_tags: claims.                                   *)
(***************************************************************************)
\* C10: for a text with no placeholder in it, reinsert_tags given what
\* extract_tags returned (text and records untouched) returns exactly the
\* original text, blanks around the protected spans included.
C10_RoundTrip == tagpc = "reinserted" => restored = tagtext

\* C11: reinsert_tags drops no recorded literal: a record whose trimmed
\* placeholder is in the text has the first occurrence of it replaced by the
\* literal, a record whose placeholder is missing has the literal appended
\* to the end of the text, and so every recorded literal occurs in the text
\* returned.
C11_NoLiteralDropped ==
    tagpc = "retagged" =>
        /\ \A i \in DOMAIN tags : Find(retagged, tags[i][2]) # 0
        /\ Len(tags) = 1 =>
              LET tag == strip(tags[1][1])
                  literal == tags[1][2]
                  p == Find(translation, tag)
              IN  retagged =
                    IF p # 0
                    THEN SubSeq(translation, 1, p - 1) \o literal
                         \o SubSeq(translation, p + Len(tag), Len(translation))
                    ELSE translation \o <<Blank>> \o literal

\* C11 witness: two records, the placeholder of the first missing from the
\* translation and its literal appended after the text.
C11_Witness ==
    /\ tagpc = "retagged" /\ Len(tags) = 2
    /\ Find(translation, strip(tags[1][1])) = 0
    /\ Find(translation, strip(tags[2][1])) # 0
    /\ SubSeq(retagged, Len(retagged) - Len(tags[1][2]) + 1, Len(retagged))
         = tags[1][2]

(***************************************************************************)
(* The sharding tool: claims.                                              *)
(***************************************************************************)
ShardsOf(name) == { f \in outdir : f.name = name }

RECURSIVE SumLines(_)
SumLines(files) ==
    IF files = {} THEN 0
    ELSE LET f == CHOOSE x \in files : TRUE
         IN  Len(f.lines) + SumLines(files \ {f})

\* C12: a manifest of one dataset of L >= 1 lines sharded with
\* min_n_shards = k: every shard file has floor(L/k) or floor(L/k)+1 lines
\* and the line counts of the shards of a file sum to L.
C12_ShardsBalanced ==
    shpc = "done" /\ Len(shargs.data) = 1 =>
        LET L == shargs.data[1].length
            k == shargs.min_n_shards
        IN  \A i \in DOMAIN line_counts :
               /\ \A f \in ShardsOf(line_counts[i].fp) :
                      Len(f.lines) \in {L \div k, L \div k + 1}
               /\ SumLines(ShardsOf(line_counts[i].fp)) = L

\* The shard folders 1..M, M the largest shard count of any file.
Folders == 1..max_shard_id

\* C13 as stated: after sharding with replication every shard folder 1..M
\* has a file for every dataset of the manifest, whatever its size.
C13_EveryDatasetInEveryShard ==
    shpc = "done" /\ shargs.replicate =>
        \A i \in Folders : \A k \in DOMAIN shargs.data :
            /\ Exists(outdir, i, Src(k))
            /\ shargs.data[k].tgt => Exists(outdir, i, Tgt(k))

\* C13 amended: after sharding with replication every shard folder 1..M
\* has a file for every dataset of the manifest that has at least one line
\* (a dataset of no lines is skipped and gets no file); no copy fails.
C13_EveryNonEmptyDatasetInEveryShard ==
    /\ shpc # "FileNotFoundError"
    /\ shpc = "done" /\ shargs.replicate =>
          \A i \in Folders : \A k \in DOMAIN shargs.data :
              shargs.data[k].length > 0 =>
                  /\ Exists(outdir, i, Src(k))
                  /\ shargs.data[k].tgt => Exists(outdir, i, Tgt(k))

\* C13 witness: two datasets of 1 and 4 lines, sharded into 1 and 2 shards
\* (max_n_shards 2), the small one replicated into folder 2.
C13_Witness ==
    /\ shpc = "done" /\ shargs.replicate
    /\ Len(shargs.data) = 2
    /\ shargs.data[1].length = 1 /\ shargs.data[2].length = 4
    /\ sharded[1] = 1 /\ max_shard_id = 2
    /\ Exists(outdir, 2, Src(1))

(***************************************************************************)
(* The cleaning stages: claims.                                            *)
(***************************************************************************)
\* C14: a stage called when all of its expected output files exist
\* creates, modifies and deletes no file and returns the paths a fresh run
\* returns; a run that returned has left all of them, so a second call in
\* succession leaves the files as the first left them.
C14_StageIdempotent ==
    /\ [](ncalls > 0 /\ clreturned.raised = "none" =>
            /\ clreturned = Returned(clargs.stage)
            /\ OutputPaths(clargs.stage) \subseteq DOMAIN fs)
    /\ [][((OutputPaths(clargs.stage) \subseteq DOMAIN fs) =>
                (fs' = fs /\ clreturned' = Returned(clargs.stage)))
           /\ ((ncalls > 0 /\ clreturned.raised = "none") =>
                (fs' = fs))]_vars

\* C14 witness: tagprotect called twice with none of its outputs there
\* before, each output written once.
C14_Witness ==
    /\ ncalls = 2 /\ clargs.stage = "tagprotect"
    /\ clreturned = Returned("tagprotect")
    /\ \A f \in OutputPaths("tagprotect") :
          f \in DOMAIN fs /\ fs[f].writes = 1

(***************************************************************************)
(* The resampler: claims.                                                  *)
(***************************************************************************)
\* C15: with dry_run the sampling loop makes its n draws, opens and writes
\* no file, and main returns.
C15_DryRunReturns ==
    /\ [](rsargs.dry_run => ~opened /\ c = 0 /\ draws <= rsargs.n)
    /\ <>(rsargs.dry_run => rspc = "returned")

\* C16: the draws from a dataset of L lines read lines 0, 1, .., L-1, 0, ..:
\* in file order, never at the end of the file, the last line included.
C16_ReadsInCircle ==
    rspc # "idle" =>
        \A k \in rsargs.names : \A j \in 1..Len(reads[k]) :
            reads[k][j] = (j - 1) % rsargs.data[k].length

\* C17: every pair written has a source and a target that are not empty
\* after cleaning and stripping, with add_tag as without; and only written
\* pairs are counted in c.
RECURSIVE SumWritten(_)
SumWritten(names) ==
    IF names = {} THEN 0
    ELSE LET k == CHOOSE x \in names : TRUE
         IN  Len(out[k]) + SumWritten(names \ {k})
C17_OnlyNonEmptyPairsWritten ==
    rspc # "idle" =>
        /\ c = SumWritten(rsargs.names)
        /\ \A k \in rsargs.names : \A j \in 1..Len(out[k]) :
              LET d == rsargs.data[k]
                  w == out[k][j]
              IN  /\ str_strip(clean_line(readline(d, "src", w.line))) # <<>>
                  /\ str_strip(clean_line(readline(d, "tgt", w.line))) # <<>>

(***************************************************************************)
(* The manifest builder: claims.                                           *)
(***************************************************************************)
Keys == { e.k : e \in data }
Corpus == [dir |-> "", stem |-> "corpus"]
EnFrOnly ==
    /\ cargs.langs = <<"en", "fr">>
    /\ cargs.files = {<<Corpus, "en">>, <<Corpus, "fr">>}
    /\ cargs.skip = {}
OnlyForwardEntries ==
    \A e \in data :
        index(cargs.langs, e.src_lang) < index(cargs.langs, e.tgt_lang)
BothDirections ==
    \A base \in Bases : \A i, j \in DOMAIN cargs.langs :
        (/\ i # j
         /\ exists(cargs.files, base, cargs.langs[i])
         /\ exists(cargs.files, base, cargs.langs[j])
         /\ DirectionName(<<cargs.langs[i], cargs.langs[j]>>) \notin cargs.skip)
        => PairKey(<<cargs.langs[i], cargs.langs[j]>>, base) \in Keys

KeyPaths == { <<k>> : k \in ConfigKeys } \cup (ConfigKeys \X ConfigKeys)
Missing == [kind |-> "missing"]
RECURSIVE At(_, _)
At(value, path) ==
    IF path = <<>> THEN value
    ELSE IF value.kind = "mapping" /\ Head(path) \in DOMAIN value.items
    THEN At(value.items[Head(path)], Tail(path))
    ELSE Missing
Defines(i, path) == At(configs[i], path) # Missing
LastDefining(path) ==
    CHOOSE i \in DOMAIN configs :
        Defines(i, path) /\ \A j \in DOMAIN configs : Defines(j, path) => j <= i

\* C19: parse_configs merges every list of config files, and for every key
\* path some file defines, the merged mapping has that path, with the
\* scalar of the last file that defines it, or a mapping if that file has a
\* mapping there; so keys only earlier files define are kept.
C19_LastFileWins ==
    /\ ppc # "TypeError"
    /\ ppc = "done" =>
          \A path \in KeyPaths :
              (\E i \in DOMAIN configs : Defines(i, path)) =>
                  LET last == At(configs[LastDefining(path)], path)
                  IN  /\ At(pconfig, path) # Missing
                      /\ At(pconfig, path).kind = last.kind
                      /\ last.kind = "scalar" => At(pconfig, path) = last

(***************************************************************************)
(* The length rule: claims.                                                *)
(***************************************************************************)
\* lo/100 <= a/b <= hi/100, for b > 0.
RatioWithin(a, b, lo, hi) == b > 0 /\ lo * b <= 100 * a /\ 100 * a <= hi * b
InRange(a, b) == RatioWithin(a, b, 50, 200)

\* C20: c_length returns True exactly when len(left)/len(right) is in
\* [0.5, 2.0], the ends included (0.5 and 2.0 accepted, 0.25 and 2.01
\* rejected); and wrong_tu rejects by its length rule only when the ratio
\* of the lengths in characters and that of the lengths in bytes are both
\* outside [0.5, 2.0].
C20_LengthRatioInclusive ==
    /\ accepted \notin {"idle", "pending"} =>
          /\ accepted = "True" <=> InRange(ltu.left.len, ltu.right.len)
          /\ (ltu.left.len = 1 /\ ltu.right.len = 2) => accepted = "True"
          /\ (ltu.left.len = 200 /\ ltu.right.len = 100) => accepted = "True"
          /\ (ltu.left.len = 1 /\ ltu.right.len = 4) => accepted = "False"
          /\ (ltu.left.len = 201 /\ ltu.right.len = 100) => accepted = "False"
    /\ rejected = "c_length or c_length_bytes" =>
          /\ ~InRange(ltu.left.len, ltu.right.len)
          /\ ~InRange(ltu.left.bytes, ltu.right.bytes)

\* C20 witness: a left side of one two-byte character and a right side of
\* four plain ones: c_length has returned False (0.25) and wrong_tu has not
\* rejected the pair by the length rule, the bytes being 2 to 4.
C20_Witness ==
    /\ ltu.left.len = 1 /\ ltu.left.bytes = 2
    /\ ltu.right.len = 4 /\ ltu.right.bytes = 4
    /\ accepted = "False"
    /\ rejected \notin {"idle", "pending", "c_length or c_length_bytes"}

(***************************************************************************)
(* C21.  The hashes of the bifixer.  `Ignoring' is a sentence without its  *)
(* case, punctuation, digits and spacing; `Unspaced' is a sentence without *)
(* its blanks.                                                             *)
(***************************************************************************)
Ignoring(text) == translate(remove_spaces(lower(text)))
IgnoringCaseSpacingPunctuation(text) ==
    SelectSeq(lower(text), LAMBDA ch : ch \notin {Blank, Comma})
Unspaced(text) == remove_spaces(text)
In(rec) == bargs.input[rec.line]

AggressiveSameHash ==
    bpc # "idle" /\ bargs.aggressive_dedup =>
        \A i, j \in DOMAIN boutput :
            /\ Ignoring(In(boutput[i]).source) = Ignoring(In(boutput[j]).source)
            /\ Ignoring(In(boutput[i]).target) = Ignoring(In(boutput[j]).target)
            => boutput[i].hash = boutput[j].hash

HandlersOf(name, class) ==
    { i \in DOMAIN loggers[name].handlers :
        loggers[name].handlers[i].class = class }

C22_HandlersInstalledOnce ==
    /\ [](lcalls > 0 =>
            \A name \in LoggerNames :
                /\ Cardinality(HandlersOf(name, "FileHandler")) <= 1
                /\ Cardinality(HandlersOf(name, "StreamHandler")) <= 1)
    /\ [][\A call \in SetupCalls :
            (setup_logger(call) /\ loggers[call.name].handlers # <<>>)
                => (loggers'[call.name].handlers = loggers[call.name].handlers)]_vars

\* C22 witness: a name set up three times, first without stdout and then
\* with it and for another folder and level, has its one file handler.
C22_Witness ==
    /\ lcalls = 3
    /\ lcall.name = "scripts" /\ lcall.to_stdout /\ lcall.folder = "logs"
    /\ loggers["scripts"].level = "INFO"
    /\ loggers["scripts"].handlers = <<FileHandler(<<"cwd", "scripts", ".log">>)>>
    /\ loggers["shard_data"].handlers = <<>>

(***************************************************************************)
(* C23.  Without dry_run the resampling ends with exactly n pairs written  *)
(* whenever a dataset holds a pair with both sides non-empty.  The loop    *)
(* ends only by writing, so at every turn with c < n some dataset must     *)
(* still have a pair to give: WritesWithin replays the reads of one        *)
(* dataset from where its files stand, for more turns than a whole round   *)
(* of the file takes.                                                      *)
(***************************************************************************)
HasPair(d) ==
    \E i \in 0..(d.length - 1) :
        /\ str_strip(clean_line(readline(d, "src", i))) # <<>>
        /\ str_strip(clean_line(readline(d, "tgt", i))) # <<>>

RECURSIVE WritesWithin(_, _, _, _, _)
WritesWithin(d, add_tag, rl0, p0, turns) ==
    IF turns = 0 THEN FALSE
    ELSE LET rl == rl0 + 1
             wraps == WrapsAt(rl, d.length)
             p == IF wraps THEN 0 ELSE p0
             src_line == Tagged(d, add_tag,
                                str_strip(clean_line(readline(d, "src", p))))
             tgt_line == str_strip(clean_line(readline(d, "tgt", p)))
         IN  \/ src_line # <<>> /\ tgt_line # <<>>
             \/ WritesWithin(d, add_tag, IF wraps THEN 0 ELSE rl,
                             IF p < d.length THEN p + 1 ELSE p, turns - 1)

\* C23: a run without dry_run over datasets of which one has a pair with
\* both sides non-empty returns with exactly n pairs written, as many
\* source lines as target lines, and until then it can still write a pair.
C23_WritesExactlyN ==
    (/\ rspc # "idle" /\ ~rsargs.dry_run
     /\ \E k \in rsargs.names : HasPair(rsargs.data[k]))
    => /\ rspc = "returned" =>
            c = rsargs.n /\ SumWritten(rsargs.names) = rsargs.n
       /\ (rspc = "loop" /\ c < rsargs.n) =>
            \E k \in rsargs.names :
                WritesWithin(rsargs.data[k], rsargs.add_tag, read_lines[k],
                             pos[k], 2 * rsargs.data[k].length + 1)

(***************************************************************************)
(* C24.  The blocks of the mapper.                                         *)
(***************************************************************************)
IsBlock(job) == job # Sentinel
Blocks == SelectSeq(enqueued, IsBlock)
\* The lines of block nb when the input is cut every block_size lines.
BlockOf(nb) ==
    LET first == nb * hargs.block_size + 1
        last == IF first + hargs.block_size - 1 < Len(hargs.input)
                THEN first + hargs.block_size - 1 ELSE Len(hargs.input)
    IN  SubSeq(hargs.input, first, last)
BlocksOf(n, size) == (n + size - 1) \div size

\* C24: the mapper enqueues the blocks 0, 1, 2, ... without gaps; a block is
\* never empty and holds, when it is put, the next block_size lines of the
\* input (fewer only in the last block, which has between 1 and block_size
\* lines); when the mapper has finished the blocks are as many as the input
\* needs, so that they reproduce the input in order, and none for an empty
\* input.
C24_BlocksPartitionInput ==
    /\ [](mainpc # "idle" =>
            /\ Blocks = [i \in 1..Len(Blocks) |-> Job(i - 1)]
            /\ mainpc # "mapping" =>
                  Len(Blocks) = BlocksOf(Len(hargs.input), hargs.block_size))
    /\ [][(Len(enqueued') > Len(enqueued) /\ IsBlock(enqueued'[Len(enqueued')]))
          => LET nb == enqueued'[Len(enqueued')][1]
             IN  /\ nb \in DOMAIN mapfiles'
                 /\ mapfiles'[nb] = BlockOf(nb)
                 /\ Len(mapfiles'[nb]) \in 1..hargs.block_size
                 /\ (Len(mapfiles'[nb]) < hargs.block_size
                       => nb = BlocksOf(Len(hargs.input), hargs.block_size) - 1)]_vars

\* C24 witness: three lines in blocks of two; the mapper has finished, the
\* last block has the third line alone and waits for a worker.
C24_Witness ==
    /\ mainpc = "sentinels"
    /\ Len(hargs.input) = 3 /\ hargs.block_size = 2
    /\ Blocks = <<Job(0), Job(1)>>
    /\ 1 \in DOMAIN mapfiles
    /\ mapfiles[1] = <<hargs.input[3]>>

(***************************************************************************)
(* C25.  The order of the copies of the replication.                       *)
(***************************************************************************)
\* C25: a file with a shards of its own, a below M, has in the folders
\* a+1 .. M copies of its shards taken in a circle 1, 2, ..., a, 1, ...:
\* folder a+1+j has the lines of the original shard (j mod a) + 1.
C25_CopiesInCircle ==
    shpc = "done" /\ shargs.replicate =>
        \A i \in DOMAIN sharded :
            LET a == sharded[i]
                fp == line_counts[i].fp
                originals == shard_data_n_shards(fp, a, line_counts[i].length)
            IN  \A j \in 0..(max_shard_id - a - 1) :
                    /\ Exists(outdir, a + 1 + j, fp)
                    /\ FileAt(outdir, a + 1 + j, fp).lines
                         = FileAt(originals, (j % a) + 1, fp).lines

(***************************************************************************)
(* C26.  The languages and the probabilities after the pruning.            *)
(***************************************************************************)
\* C26: the list of languages returned after the pruning has exactly the
\* languages whose row and column remain, in the order of the axes, as many
\* as the matrix has rows; a dataset whose two languages remain gets the
\* probability of its own (src, tgt) cell and any other dataset gets 0.
C26_LanguagesMatchAxes ==
    skpc \in {"assign", "returned"} =>
        /\ slangs = axis
        /\ Len(slangs) = Len(A)
        /\ \A k \in DOMAIN updated_metadata :
              LET meta == metadata[k]
              IN  updated_metadata[k].prob =
                    IF /\ meta.src_lang \in Range(axis)
                       /\ meta.tgt_lang \in Range(axis)
                    THEN probs[index(axis, meta.src_lang)]
                              [index(axis, meta.tgt_lang)]
                    ELSE ZeroProb

(***************************************************************************)
(* C27.  The combined TSV files of bifix, biclean and dedup.               *)
(***************************************************************************)
CombinedTsvs ==
    {Path("src", ".tsv"), Path("src", ".tsv.bifixed.out"),
     Path("src", ".tsv.annotated"), Path("src", ".tsv.bicleaned"),
     Path("src", ".tsv.dedup")}
WrittenBy(files, after) ==
    { f \in DOMAIN after :
        after[f].writes > (IF f \in DOMAIN files THEN files[f].writes ELSE 0) }

\* C27: when a call of bifix, biclean or dedup that does not skip returns,
\* none of the combined TSV files it wrote (the pasted .tsv, the annotated
\* and the filtered TSV) is left; of what it wrote only its outputs remain.
C27_CombinedTsvsDeleted ==
    [][\A stage \in {"bifix", "biclean", "dedup"} :
          (Call(stage) /\ ~Skip(stage, fs) /\ clreturned'.raised = "none")
          => /\ WrittenBy(fs, fs') \cap CombinedTsvs = {}
             /\ WrittenBy(fs, fs') \subseteq OutputPaths(stage)]_vars

(***************************************************************************)
(* C28.  What the unique flag suppresses.                                  *)
(***************************************************************************)
UsedFiles == { e.src : e \in data } \cup { e.tgt : e \in data }
\* The directions of a base that nothing but the unique flag can suppress.
Candidate(direction, base) ==
    /\ exists(cargs.files, base, direction[1])
    /\ exists(cargs.files, base, direction[2])
    /\ DirectionName(direction) \notin cargs.skip
    /\ ~(cargs.ordered = "forward" /\ ForwardSkips(cargs.langs, direction))
    /\ ~(cargs.ordered = "backward" /\ BackwardSkips(cargs.langs, direction))

\* C28: with unique set, a direction of a base is suppressed only when its
\* source file and its target file were used by an entry put before: no two
\* entries use the same pair of files, and every base with both files, in
\* whatever directory, has at least one entry.
C28_SuppressedOnlyWhenFilesUsed ==
    (cpc = "returned" /\ cargs.unique /\ ~cargs.mono) =>
        /\ \A e1, e2 \in data :
              e1 # e2 => {e1.src, e1.tgt} # {e2.src, e2.tgt}
        /\ \A base \in Bases :
              \A i \in DOMAIN permutations(cargs.langs) :
                 LET direction == permutations(cargs.langs)[i]
                 IN  Candidate(direction, base) =>
                       /\ \/ PairKey(direction, base) \in Keys
                          \/ {Fp(base, direction[1]), Fp(base, direction[2])}
                               \subseteq UsedFiles
                       /\ \E e \in data :
                             \E lang \in LangCodes : e.src = Fp(base, lang)

(***************************************************************************)
(* C29.  The ids of the placeholders of _tagprotect.                       *)
(***************************************************************************)
\* C29: every numeric id of a placeholder lies in 0 .. max_id-1, for one
\* match as for several, and a match whose place is not in that range gets
\* the bare placeholder.
C29_IdsBelowMaxId ==
    tppc # "idle" =>
        \A k \in DOMAIN repls :
            LET id == repls[k][1].id
                at == repls[k][2].at
            IN  /\ id # Bare => id[1] \in 0..(tpargs.max_id - 1)
                /\ at >= tpargs.max_id => id = Bare

(***************************************************************************)
(* C30.  What the skip path of a stage can return.                         *)
(***************************************************************************)
\* C30: when a call of a stage finds all its outputs and skips, an earlier
\* run of the stage ran to its end, and no output it returns is a file
\* that an interrupted run left partly written.
C30_SkipOnlyAfterCompleteRun ==
    sstatus = "skipped" =>
        /\ completed > 0
        /\ \A f \in OutputPaths(sstage) : sfiles[f] = "whole"

=============================================================================
